---- MODULE Spec2Model ----
(***************************************************************************)
(* The WhatsApp connection/session manager of src/src/lib/whatsapp.ts as a *)
(* state machine.  One step of the model is one run-to-completion turn of  *)
(* the JavaScript event loop: the code of an exported function or of an    *)
(* event handler from its entry (or from the resumption of an await) to    *)
(* its next real suspension point (client.initialize(), client.destroy()). *)
(* The underlying whatsapp-web.js client is the environment: it is         *)
(* modelled per client instance by the calls the code makes on it and by   *)
(* the lifecycle events it may emit.                                        *)
(***************************************************************************)
EXTENDS Integers, Sequences, FiniteSets, Bags, TLC

\* ---------------------------------------------------------------- bounds
\* client instances ever constructed (the first one plus one per reset())
MaxClients == 3
\* resetWhatsApp() calls made by themselves (not as the first half of a forced start)
MaxResets == 1
\* forced start requests (start route with force=1): resetWhatsApp() then startWhatsApp()
MaxForced == 2
\* async calls suspended at an await at the same time
MaxTasks == 2
\* subscribeWhatsAppEvents calls (so entries of the broadcaster's listener list)
MaxSubs == 2
\* calls of one unsubscribe function
MaxOffCalls == 2
\* client.initialize() calls on one client instance
MaxInits == 2
\* client.sendMessage() calls on one client instance
MaxSends == 1

\* ---------------------------------------------------------------- inputs
Null == "<null>"
Statuses == {"idle", "initializing", "qr", "ready", "disconnected", "error"}
EventKinds == {"qr", "ready", "auth_failure", "disconnected", "message"}
ClientIds == 1..MaxClients
\* listener functions handed to subscribeWhatsAppEvents
ListenerIds == {"L1", "L2"}
\* pairing tokens the client emits with "qr"
QrTokens == {"qrA", "qrB"}
\* payload of "auth_failure" and of "disconnected" ("" is the falsy case)
Reasons == {"", "LOGOUT"}
\* what client.initialize() rejects with: an Error (with its message) or not
Thrown == {[isError |-> TRUE, message |-> "boom"],
           [isError |-> TRUE, message |-> ""],
           [isError |-> FALSE, message |-> "n/a"]}
\* inbound messages (msg.from, msg.body, msg.id)
Inbound == {[from |-> "5511@c.us", body |-> "oi", id |-> "m1"]}

VARIABLES
    \* WhatsAppState (singleton.state)
    status, qr, lastError, initialized, listenersAttached, injectedPatched,
    \* singleton.client (an instance id) and the number of clients constructed
    client, created,
    \* singleton.emitter: the 'event' listener list, in registration order
    listeners,
    \* suspended async calls (a bag of continuations)
    tasks,
    \* the underlying clients, per instance
    phase, onCalls, handlers, initCalls, destroyCalls, sendCalls, pagePatched, wraps,
    \* the unsubscribe functions subscribeWhatsAppEvents has returned, in order: the
    \* listener each one closes over and how often it has been called
    unsubs,
    \* what the last step emitted, what each listener got from it, the payload of
    \* the latest state event, and the last operation with what it returned
    events, delivered, lastState, last

stateVars == <<status, qr, lastError, initialized, listenersAttached, injectedPatched>>
clientVars == <<phase, onCalls, handlers, initCalls, destroyCalls, sendCalls, pagePatched, wraps>>
obsVars == <<events, delivered, lastState, last>>
vars == <<stateVars, client, created, listeners, unsubs, tasks, clientVars, obsVars>>

\* ------------------------------------------------------------ helpers
\* getWhatsAppStatus(): the {status, qr, lastError} snapshot
GetWhatsAppStatus(st, q, le) == [status |-> st, qr |-> q, lastError |-> le]

\* what an operation that has not returned (or returns nothing) leaves in last.ret
NoRet == [status |-> Null, qr |-> Null, lastError |-> Null]

\* the event emitState() puts on the emitter
StateEvent(st, q, le) == [type |-> "state", data |-> GetWhatsAppStatus(st, q, le)]

\* JavaScript's (x || y) on strings: the empty string is falsy
OrElse(x, y) == IF x = "" THEN y ELSE x

RECURSIVE Occurrences(_, _)
Occurrences(seq, x) ==
    IF seq = <<>> THEN 0
    ELSE (IF Head(seq) = x THEN 1 ELSE 0) + Occurrences(Tail(seq), x)

RECURSIVE Repeat(_, _)
Repeat(e, n) == IF n = 0 THEN <<>> ELSE <<e>> \o Repeat(e, n - 1)

\* EventEmitter.emit: each event is handed, in emission order, to every entry of
\* the listener list; this is what listener l gets from the events evs
RECURSIVE Fanout(_, _, _)
Fanout(ls, l, evs) ==
    IF evs = <<>> THEN <<>>
    ELSE Repeat(Head(evs), Occurrences(ls, l)) \o Fanout(ls, l, Tail(evs))

RECURSIVE LastStateOf(_, _)
LastStateOf(evs, dflt) ==
    IF evs = <<>> THEN dflt
    ELSE IF evs[Len(evs)].type = "state" THEN evs[Len(evs)].data
    ELSE LastStateOf(SubSeq(evs, 1, Len(evs) - 1), dflt)

\* one step's emissions on singleton.emitter
Broadcast(evs) ==
    /\ events' = evs
    /\ delivered' = [l \in ListenerIds |-> Fanout(listeners, l, evs)]
    /\ lastState' = LastStateOf(evs, lastState)

NoHandlers == [k \in EventKinds |-> 0]

\* emitter.off('event', l): removes the most recently added entry of l, if any
RECURSIVE RemoveLast(_, _)
RemoveLast(seq, x) ==
    IF seq = <<>> THEN <<>>
    ELSE IF seq[Len(seq)] = x THEN SubSeq(seq, 1, Len(seq) - 1)
    ELSE Append(RemoveLast(SubSeq(seq, 1, Len(seq) - 1), x), seq[Len(seq)])

TaskCount == BagCardinality(tasks)
AddTask(t) == tasks (+) SetToBag({t})
DropTask(t) == tasks (-) SetToBag({t})
SendsInFlight(c) ==
    BagCardinality([t \in {u \in BagToSet(tasks) : u.kind = "send" /\ u.client = c}
                      |-> CopiesIn(t, tasks)])
PendingResets ==
    BagCardinality([t \in {u \in BagToSet(tasks) : u.kind = "reset"} |-> CopiesIn(t, tasks)])
\* resetWhatsApp() calls so far: each one calls destroy() on the client of its moment
RECURSIVE SumUpTo(_, _)
SumUpTo(f, n) == IF n = 0 THEN 0 ELSE f[n] + SumUpTo(f, n - 1)
ResetsBegun == SumUpTo(destroyCalls, MaxClients)

\* ------------------------------------------------------------ the code's choices
\* (mutant) the early return forgets the initializing status
BusyStatuses_WithoutInitializing == {"ready", "qr"}

\* the statuses on which startWhatsApp returns at once
BusyStatuses == {"ready", "initializing", "qr"}

\* (mutant) the listenersAttached guard is not consulted
ShouldAttach_Always(flag) == TRUE

\* attachListenersIfNeeded: whether the five client.on(...) calls are made
ShouldAttach(flag) == ~flag

\* the state the handlers and operations write, as [status, qr, lastError]
QrHandlerState(token) == GetWhatsAppStatus("qr", token, Null)
ReadyHandlerState == GetWhatsAppStatus("ready", Null, Null)
AuthFailureHandlerState(message) == GetWhatsAppStatus("error", qr, OrElse(message, "auth_failure"))
\* (mutant) the disconnected handler puts the state back to idle
DisconnectedHandlerState_Idle(reason) == GetWhatsAppStatus("idle", qr, OrElse(reason, Null))
DisconnectedHandlerState(reason) == GetWhatsAppStatus("disconnected", qr, OrElse(reason, Null))
\* (mutant) startWhatsApp leaves lastError as it was
StartState_KeepsLastError == GetWhatsAppStatus("initializing", qr, lastError)
StartState == GetWhatsAppStatus("initializing", qr, Null)
\* (mutant) reset() leaves lastError as it was
ResetState_KeepsLastError == GetWhatsAppStatus("idle", Null, lastError)
\* (mutant) reset() leaves the pairing token as it was
ResetState_KeepsQr == GetWhatsAppStatus("idle", qr, Null)
ResetState == GetWhatsAppStatus("idle", Null, Null)

\* (mutant) reset() builds a new emitter, with no listeners
ListenersAfterReset_Fresh == <<>>
\* reset() leaves singleton.emitter, and so its listener list, in place
ListenersAfterReset == listeners

\* the message startWhatsApp's catch block records
InitFailureMessage(e) == IF e.isError THEN e.message ELSE "Falha ao inicializar WhatsApp."
InitFailureState(e) == GetWhatsAppStatus("error", qr, InitFailureMessage(e))

\* the events each of them emits, in order (s is the state just written)
\* (mutant) the qr handler emits the state snapshot before the qr event
QrHandlerEvents_StateFirst(token, s) ==
    << StateEvent(s.status, s.qr, s.lastError), [type |-> "qr", data |-> [qr |-> token]] >>
QrHandlerEvents(token, s) ==
    << [type |-> "qr", data |-> [qr |-> token]], StateEvent(s.status, s.qr, s.lastError) >>
ReadyHandlerEvents(s) ==
    << [type |-> "ready", data |-> <<>>], StateEvent(s.status, s.qr, s.lastError) >>
AuthFailureHandlerEvents(message, s) ==
    << [type |-> "auth_failure", data |-> [message |-> OrElse(message, "auth_failure")]],
       StateEvent(s.status, s.qr, s.lastError) >>
DisconnectedHandlerEvents(reason, s) ==
    << [type |-> "disconnected", data |-> [reason |-> OrElse(reason, "")]],
       StateEvent(s.status, s.qr, s.lastError) >>
\* (mutant) the message handler also calls emitState()
MessageHandlerEvents_WithState(msg) ==
    << [type |-> "message", data |-> [from |-> msg.from, body |-> msg.body, id |-> msg.id]],
       StateEvent(status, qr, lastError) >>
MessageHandlerEvents(msg) ==
    << [type |-> "message", data |-> [from |-> msg.from, body |-> msg.body, id |-> msg.id]] >>
\* (mutant) startWhatsApp does not broadcast its transition
StartEvents_None(s) == <<>>
StartEvents(s) == << StateEvent(s.status, s.qr, s.lastError) >>
\* (mutant) reset() does not broadcast
ResetEvents_None(s) == <<>>
ResetEvents(s) == << StateEvent(s.status, s.qr, s.lastError) >>
InitFailureEvents(e, s) ==
    << [type |-> "error", data |-> [message |-> InitFailureMessage(e)]],
       StateEvent(s.status, s.qr, s.lastError) >>

\* (mutant) the initialized guard is not consulted
ShouldInitialize_Always(flag) == TRUE
\* whether startWhatsApp calls client.initialize()
ShouldInitialize(flag) == ~flag
\* (mutant) the catch block leaves the initialized guard set
GuardAfterInitFailure_Kept == TRUE
\* the initialized guard after client.initialize() has thrown
GuardAfterInitFailure == FALSE

WriteState(s) == /\ status' = s.status /\ qr' = s.qr /\ lastError' = s.lastError

\* ------------------------------------------------------------ Init
Init ==
    /\ status = "idle" /\ qr = Null /\ lastError = Null
    /\ initialized = FALSE /\ listenersAttached = FALSE /\ injectedPatched = FALSE
    /\ client = 1 /\ created = 1
    /\ listeners = <<>> /\ unsubs = <<>>
    /\ tasks = EmptyBag
    /\ phase = [c \in ClientIds |-> "new"]
    /\ onCalls = [c \in ClientIds |-> NoHandlers]
    /\ handlers = [c \in ClientIds |-> NoHandlers]
    /\ initCalls = [c \in ClientIds |-> 0]
    /\ destroyCalls = [c \in ClientIds |-> 0]
    /\ sendCalls = [c \in ClientIds |-> 0]
    /\ pagePatched = [c \in ClientIds |-> FALSE]
    /\ wraps = [c \in ClientIds |-> 0]
    /\ events = <<>>
    /\ delivered = [l \in ListenerIds |-> <<>>]
    /\ lastState = NoRet
    /\ last = [op |-> "init", ret |-> NoRet]

\* ------------------------------------------------------------ fragments
\* attachListenersIfNeeded() on client c, called with the guard at flag
AttachListenersIfNeeded(c, flag) ==
    IF ShouldAttach(flag)
    THEN /\ listenersAttached' = TRUE
         /\ onCalls' = [onCalls EXCEPT ![c] = [k \in EventKinds |-> @[k] + 1]]
         /\ handlers' = [handlers EXCEPT ![c] = [k \in EventKinds |-> @[k] + 1]]
    ELSE /\ listenersAttached' = flag
         /\ UNCHANGED <<onCalls, handlers>>

\* whether client c2 has a page (client.pupPage) to evaluate on: set while
\* initialize() launches the browser, so unknown while it is starting
HasPageChoices(c2, ph) ==
    IF ph[c2] = "new" THEN {FALSE}
    ELSE IF ph[c2] = "starting" THEN {TRUE, FALSE}
    ELSE {TRUE}

\* startWhatsApp up to its return or to the await of client.initialize()
StartReturnsAtOnce == status \in BusyStatuses \/ ~ShouldInitialize(initialized)
StartSync ==
    /\ AttachListenersIfNeeded(client, listenersAttached)
    /\ IF status \in BusyStatuses
       THEN /\ UNCHANGED <<status, qr, lastError, initialized, initCalls, phase>>
            /\ Broadcast(<<>>)
       ELSE /\ WriteState(StartState)
            /\ Broadcast(StartEvents(StartState))
            /\ IF ShouldInitialize(initialized)
               THEN /\ initialized' = TRUE
                    /\ initCalls' = [initCalls EXCEPT ![client] = @ + 1]
                    /\ phase' = [phase EXCEPT ![client] = "starting"]
               ELSE UNCHANGED <<initialized, initCalls, phase>>
    /\ UNCHANGED <<injectedPatched, client, created, listeners, unsubs,
                   destroyCalls, pagePatched, wraps>>

\* ------------------------------------------------------------ operations
\* (mutant) getWhatsAppStatus() broadcasts the snapshot it returns
GetStatusEvents_State == << StateEvent(status, qr, lastError) >>
\* what getWhatsAppStatus() emits
GetStatusEvents == <<>>

\* getWhatsAppStatus()
GetStatus ==
    /\ last' = [op |-> "getStatus", ret |-> GetWhatsAppStatus(status, qr, lastError)]
    /\ Broadcast(GetStatusEvents)
    /\ UNCHANGED <<stateVars, client, created, listeners, unsubs, tasks, clientVars>>

\* startWhatsApp(), called by a route: to its return or to its await
Start ==
    /\ StartSync
    /\ UNCHANGED sendCalls
    /\ IF StartReturnsAtOnce
       THEN /\ tasks' = tasks
            /\ last' = [op |-> IF status \in BusyStatuses THEN "start_noop" ELSE "start",
                        ret |-> GetWhatsAppStatus(status', qr', lastError')]
       ELSE /\ TaskCount < MaxTasks
            /\ initCalls[client] < MaxInits
            /\ tasks' = AddTask([kind |-> "start", client |-> client])
            /\ last' = [op |-> "start_await", ret |-> NoRet]

\* client.initialize() of a suspended startWhatsApp resolves
InitOk(t) ==
    /\ t \in BagToSet(tasks) /\ t.kind = "start"
    /\ tasks' = DropTask(t)
    /\ last' = [op |-> "start_done", ret |-> GetWhatsAppStatus(status, qr, lastError)]
    /\ Broadcast(<<>>)
    /\ UNCHANGED <<stateVars, client, created, listeners, unsubs, clientVars>>

\* startWhatsApp's catch block, client.initialize() on client c having thrown e
InitCatch(c, e) ==
    /\ WriteState(InitFailureState(e))
    /\ initialized' = GuardAfterInitFailure
    /\ Broadcast(InitFailureEvents(e, InitFailureState(e)))
    /\ phase' = [phase EXCEPT ![c] = "closed"]
    /\ UNCHANGED <<listenersAttached, injectedPatched, client, created, listeners, unsubs,
                   onCalls, handlers, initCalls, destroyCalls, pagePatched, wraps>>

\* client.initialize() of a suspended startWhatsApp rejects with e
InitFail(t, e) ==
    /\ t \in BagToSet(tasks) /\ t.kind = "start"
    /\ tasks' = DropTask(t)
    /\ InitCatch(t.client, e)
    /\ last' = [op |-> "start_failed", ret |-> GetWhatsAppStatus(status', qr', lastError'),
                thrown |-> e]
    /\ UNCHANGED sendCalls

\* resetWhatsApp() up to the await of client.destroy(); removeAllListeners() and
\* destroy() may each throw
ResetBegin(detachThrows, destroyThrows) ==
    /\ TaskCount < MaxTasks
    /\ created + PendingResets < MaxClients
    /\ ResetsBegun < MaxResets
    /\ handlers' = IF detachThrows THEN handlers ELSE [handlers EXCEPT ![client] = NoHandlers]
    /\ destroyCalls' = [destroyCalls EXCEPT ![client] = @ + 1]
    /\ phase' = IF destroyThrows THEN phase ELSE [phase EXCEPT ![client] = "closed"]
    /\ tasks' = AddTask([kind |-> "reset", detachThrew |-> detachThrows,
                          destroyThrew |-> destroyThrows])
    /\ last' = [op |-> "reset_await", ret |-> NoRet]
    /\ Broadcast(<<>>)
    /\ UNCHANGED <<stateVars, client, created, listeners, unsubs,
                   onCalls, initCalls, pagePatched, wraps, sendCalls>>

\* resetWhatsApp() after the await: new client, idle state, listeners, broadcast
ResetFinish(t) ==
    /\ t \in BagToSet(tasks) /\ t.kind = "reset"
    /\ tasks' = DropTask(t)
    /\ created' = created + 1
    /\ client' = created + 1
    /\ WriteState(ResetState)
    /\ initialized' = FALSE
    /\ injectedPatched' = FALSE
    /\ AttachListenersIfNeeded(created + 1, FALSE)
    /\ listeners' = ListenersAfterReset
    /\ events' = ResetEvents(ResetState)
    /\ delivered' = [l \in ListenerIds |-> Fanout(listeners', l, events')]
    /\ lastState' = LastStateOf(events', lastState)
    /\ last' = [op |-> "reset", ret |-> GetWhatsAppStatus(status', qr', lastError'),
                detachThrew |-> t.detachThrew, destroyThrew |-> t.destroyThrew]
    /\ UNCHANGED <<unsubs, phase, initCalls, destroyCalls, pagePatched, wraps, sendCalls>>

\* ------------------------------------------------------------ forced start
\* The start route with force=1: `await resetWhatsApp()` then `await
\* startWhatsApp()`.  The request is suspended at destroy() inside reset (pc
\* "destroy"); when reset returns, the route's continuation is queued (pc
\* "start") and runs before the event loop takes any new request or client event.
PendingForced ==
    BagCardinality([t \in {u \in BagToSet(tasks) : u.kind = "force" /\ u.pc = "destroy"}
                      |-> CopiesIn(t, tasks)])
ContinuationReady == \E t \in BagToSet(tasks) : t.kind = "force" /\ t.pc = "start"

\* the route up to the await of client.destroy() in resetWhatsApp()
ForceBegin(detachThrows, destroyThrows) ==
    /\ TaskCount < MaxTasks
    /\ created + PendingResets + PendingForced < MaxClients
    /\ ResetsBegun < MaxForced
    /\ handlers' = IF detachThrows THEN handlers ELSE [handlers EXCEPT ![client] = NoHandlers]
    /\ destroyCalls' = [destroyCalls EXCEPT ![client] = @ + 1]
    /\ phase' = IF destroyThrows THEN phase ELSE [phase EXCEPT ![client] = "closed"]
    /\ tasks' = AddTask([kind |-> "force", pc |-> "destroy", old |-> client,
                          detachThrew |-> detachThrows, destroyThrew |-> destroyThrows])
    /\ last' = [op |-> "reset_await", ret |-> NoRet, force |-> [old |-> client]]
    /\ Broadcast(<<>>)
    /\ UNCHANGED <<stateVars, client, created, listeners, unsubs,
                   onCalls, initCalls, pagePatched, wraps, sendCalls>>

\* resetWhatsApp() of the route after the await, to its return: the client of this
\* moment is replaced; the route's continuation is queued
ForceResetDone(t) ==
    /\ t \in BagToSet(tasks) /\ t.kind = "force" /\ t.pc = "destroy"
    /\ tasks' = DropTask(t) (+) SetToBag({[kind |-> "force", pc |-> "start", old |-> t.old,
                                            new |-> created + 1]})
    /\ created' = created + 1
    /\ client' = created + 1
    /\ WriteState(ResetState)
    /\ initialized' = FALSE
    /\ injectedPatched' = FALSE
    /\ AttachListenersIfNeeded(created + 1, FALSE)
    /\ listeners' = ListenersAfterReset
    /\ events' = ResetEvents(ResetState)
    /\ delivered' = [l \in ListenerIds |-> Fanout(listeners', l, events')]
    /\ lastState' = LastStateOf(events', lastState)
    /\ last' = [op |-> "reset", ret |-> GetWhatsAppStatus(status', qr', lastError'),
                detachThrew |-> t.detachThrew, destroyThrew |-> t.destroyThrew,
                force |-> [old |-> t.old, new |-> created + 1, replaced |-> client]]
    /\ UNCHANGED <<unsubs, phase, initCalls, destroyCalls, pagePatched, wraps, sendCalls>>

\* the route's continuation: startWhatsApp() to its return or to its await
ForceStart(t) ==
    /\ t \in BagToSet(tasks) /\ t.kind = "force" /\ t.pc = "start"
    /\ StartSync
    /\ UNCHANGED sendCalls
    /\ IF StartReturnsAtOnce
       THEN /\ tasks' = DropTask(t)
            /\ last' = [op |-> IF status \in BusyStatuses THEN "start_noop" ELSE "start",
                        ret |-> GetWhatsAppStatus(status', qr', lastError'),
                        force |-> [old |-> t.old, new |-> t.new]]
       ELSE /\ initCalls[client] < MaxInits
            /\ tasks' = DropTask(t) (+) SetToBag({[kind |-> "start", client |-> client]})
            /\ last' = [op |-> "start_await", ret |-> NoRet,
                        force |-> [old |-> t.old, new |-> t.new]]

\* subscribeWhatsAppEvents(l)
Subscribe(l) ==
    /\ Len(unsubs) < MaxSubs
    /\ listeners' = Append(listeners, l)
    /\ unsubs' = Append(unsubs, [listener |-> l, calls |-> 0])
    /\ last' = [op |-> "subscribe", ret |-> NoRet]
    /\ Broadcast(<<>>)
    /\ UNCHANGED <<stateVars, client, created, tasks, clientVars>>

\* the h-th function subscribeWhatsAppEvents returned: emitter.off('event', listener)
Unsubscribe(h) ==
    /\ h \in DOMAIN unsubs
    /\ unsubs[h].calls < MaxOffCalls
    /\ listeners' = RemoveLast(listeners, unsubs[h].listener)
    /\ unsubs' = [unsubs EXCEPT ![h].calls = @ + 1]
    /\ last' = [op |-> "unsubscribe", ret |-> NoRet, handle |-> h]
    /\ Broadcast(<<>>)
    /\ UNCHANGED <<stateVars, client, created, tasks, clientVars>>

\* ------------------------------------------------------------ client events
\* Client c emits an event that a handler of attachListenersIfNeeded receives.
\* A client emits nothing before initialize() has been called on it nor once it
\* is closed; qr and ready come before it is ready.
HandlerFrame == UNCHANGED <<listenersAttached, initialized, client, created, listeners,
                            unsubs, onCalls, handlers, initCalls, destroyCalls,
                            pagePatched, wraps, sendCalls>>

ClientQr(c, token) ==
    /\ handlers[c]["qr"] > 0 /\ phase[c] \in {"starting", "pairing"}
    /\ phase' = [phase EXCEPT ![c] = "pairing"]
    /\ WriteState(QrHandlerState(token))
    /\ Broadcast(QrHandlerEvents(token, QrHandlerState(token)))
    /\ last' = [op |-> "qr", ret |-> NoRet, token |-> token]
    /\ UNCHANGED <<injectedPatched, tasks>>
    /\ HandlerFrame

\* the ready handler, with the synchronous part of patchInjectedWWebJSIfNeeded()
ClientReady(c) ==
    /\ handlers[c]["ready"] > 0 /\ phase[c] \in {"starting", "pairing"}
    /\ phase' = [phase EXCEPT ![c] = "ready"]
    /\ WriteState(ReadyHandlerState)
    /\ Broadcast(ReadyHandlerEvents(ReadyHandlerState))
    /\ \E hasPage \in HasPageChoices(client, phase') :
          IF ~injectedPatched /\ hasPage
          THEN /\ TaskCount < MaxTasks
               /\ tasks' = AddTask([kind |-> "patch", client |-> client])
          ELSE tasks' = tasks
    /\ last' = [op |-> "ready", ret |-> NoRet]
    /\ UNCHANGED injectedPatched
    /\ HandlerFrame

ClientAuthFailure(c, message) ==
    /\ handlers[c]["auth_failure"] > 0 /\ phase[c] \in {"starting", "pairing"}
    /\ phase' = [phase EXCEPT ![c] = "closed"]
    /\ WriteState(AuthFailureHandlerState(message))
    /\ Broadcast(AuthFailureHandlerEvents(message, AuthFailureHandlerState(message)))
    /\ last' = [op |-> "auth_failure", ret |-> NoRet]
    /\ UNCHANGED <<injectedPatched, tasks>>
    /\ HandlerFrame

ClientDisconnected(c, reason) ==
    /\ handlers[c]["disconnected"] > 0 /\ phase[c] \in {"starting", "pairing", "ready"}
    /\ phase' = [phase EXCEPT ![c] = "closed"]
    /\ WriteState(DisconnectedHandlerState(reason))
    /\ Broadcast(DisconnectedHandlerEvents(reason, DisconnectedHandlerState(reason)))
    /\ last' = [op |-> "disconnected", ret |-> NoRet]
    /\ UNCHANGED <<injectedPatched, tasks>>
    /\ HandlerFrame

ClientMessage(c, msg) ==
    /\ handlers[c]["message"] > 0 /\ phase[c] = "ready"
    /\ Broadcast(MessageHandlerEvents(msg))
    /\ last' = [op |-> "message", ret |-> NoRet]
    /\ UNCHANGED <<status, qr, lastError, injectedPatched, tasks, phase>>
    /\ HandlerFrame

\* ------------------------------------------------------------ listener callbacks
\* What a listener may do when it is called with an event: call an unsubscribe
\* function, or call startWhatsApp() (a subscriber that reconnects).
ListenerCallbacks ==
    {[kind |-> "unsubscribe", handle |-> h] : h \in 1..MaxSubs} \cup {[kind |-> "start"]}

\* EventEmitter.emit of the k-th event of a step: the calls it makes on the listener
\* list ls, a copy of the list taken when emit() is entered
DeliverTo(ls, k) == [i \in 1..Len(ls) |-> [kind |-> "deliver", to |-> ls[i], ev |-> k]]

\* the events a step's calls hand to listener l, in the order of the calls
RECURSIVE Received(_, _, _)
Received(log, evs, l) ==
    IF log = <<>> THEN <<>>
    ELSE (IF Head(log).kind = "deliver" /\ Head(log).to = l
          THEN <<evs[Head(log).ev]>> ELSE <<>>) \o Received(Tail(log), evs, l)

\* the disconnected handler on client c, the listener at position pos of the list
\* unsubscribing from inside its call for the 'disconnected' event: emit() goes on
\* over its copy of the list, emitState() then emits to the list as it is
DisconnectedUnsubscribing(c, reason, pos, h) ==
    LET s1 == DisconnectedHandlerState(reason)
        evs == DisconnectedHandlerEvents(reason, s1)
        ls1 == RemoveLast(listeners, unsubs[h].listener)
        log == SubSeq(DeliverTo(listeners, 1), 1, pos)
               \o << [kind |-> "unsub", handle |-> h, listener |-> unsubs[h].listener] >>
               \o SubSeq(DeliverTo(listeners, 1), pos + 1, Len(listeners))
               \o DeliverTo(ls1, 2)
    IN /\ h \in DOMAIN unsubs
       /\ unsubs[h].calls < MaxOffCalls
       /\ WriteState(s1)
       /\ phase' = [phase EXCEPT ![c] = "closed"]
       /\ listeners' = ls1
       /\ unsubs' = [unsubs EXCEPT ![h].calls = @ + 1]
       /\ events' = evs
       /\ delivered' = [l \in ListenerIds |-> Received(log, evs, l)]
       /\ lastState' = LastStateOf(evs, lastState)
       /\ last' = [op |-> "disconnected_cb", ret |-> NoRet, log |-> log]
       /\ UNCHANGED <<initialized, listenersAttached, injectedPatched, client, created, tasks,
                      onCalls, handlers, initCalls, destroyCalls, sendCalls, pagePatched, wraps>>

\* the same handler, that listener calling startWhatsApp() from inside its call:
\* start() runs on the state the handler has written, its state event is emitted
\* (and delivered to every listener) inside the outer emit(), and emitState()
\* afterwards reads the state start() has left
DisconnectedRestarting(c, reason, pos) ==
    LET s1 == DisconnectedHandlerState(reason)
        s2 == GetWhatsAppStatus(StartState.status, s1.qr, StartState.lastError)
        evs == << DisconnectedHandlerEvents(reason, s1)[1] >>
               \o StartEvents(s2)
               \o << StateEvent(s2.status, s2.qr, s2.lastError) >>
        log == SubSeq(DeliverTo(listeners, 1), 1, pos)
               \o << [kind |-> "start"] >>
               \o (IF StartEvents(s2) = <<>> THEN <<>> ELSE DeliverTo(listeners, 2))
               \o SubSeq(DeliverTo(listeners, 1), pos + 1, Len(listeners))
               \o DeliverTo(listeners, Len(evs))
    IN /\ s1.status \notin BusyStatuses
       /\ AttachListenersIfNeeded(client, listenersAttached)
       /\ WriteState(s2)
       /\ IF ShouldInitialize(initialized)
          THEN /\ TaskCount < MaxTasks
               /\ initCalls[client] < MaxInits
               /\ initialized' = TRUE
               /\ initCalls' = [initCalls EXCEPT ![client] = @ + 1]
               /\ phase' = [phase EXCEPT ![c] = "closed", ![client] = "starting"]
               /\ tasks' = AddTask([kind |-> "start", client |-> client])
          ELSE /\ phase' = [phase EXCEPT ![c] = "closed"]
               /\ UNCHANGED <<initialized, initCalls, tasks>>
       /\ events' = evs
       /\ delivered' = [l \in ListenerIds |-> Received(log, evs, l)]
       /\ lastState' = LastStateOf(evs, lastState)
       /\ last' = [op |-> "disconnected_cb", ret |-> NoRet, log |-> log]
       /\ UNCHANGED <<injectedPatched, client, created, listeners, unsubs,
                      destroyCalls, sendCalls, pagePatched, wraps>>

\* the disconnected handler with a listener that calls back into the module
ClientDisconnectedCallback(c, reason, pos, cb) ==
    /\ handlers[c]["disconnected"] > 0 /\ phase[c] \in {"starting", "pairing", "ready"}
    /\ pos \in 1..Len(listeners)
    /\ IF cb.kind = "unsubscribe"
       THEN DisconnectedUnsubscribing(c, reason, pos, cb.handle)
       ELSE DisconnectedRestarting(c, reason, pos)

\* (mutant) the function run in the page does not consult window.__adcproWWebJSPatched
ShouldWrap_NoPageFlag(patched, hasWWebJS) == hasWWebJS
\* the function run in the page: whether it wraps WWebJS.processMediaData
ShouldWrap(patched, hasWWebJS) == ~patched /\ hasWWebJS
\* (mutant) the injectedPatched guard is set in a finally block
PatchedAfterThrow_Set(flag) == TRUE
\* the injectedPatched guard after page.evaluate() has thrown
PatchedAfterThrow(flag) == flag

\* page.evaluate() of a suspended patchInjectedWWebJSIfNeeded() settles: it throws,
\* or it ran in the page, which wraps WWebJS.processMediaData unless the page is
\* already patched or has no such function
PatchFinish(t, throws, hasWWebJS) ==
    /\ t \in BagToSet(tasks) /\ t.kind = "patch"
    /\ tasks' = DropTask(t)
    /\ IF throws
       THEN /\ injectedPatched' = PatchedAfterThrow(injectedPatched)
            /\ UNCHANGED <<pagePatched, wraps>>
       ELSE /\ injectedPatched' = TRUE
            /\ IF ShouldWrap(pagePatched[t.client], hasWWebJS)
               THEN /\ pagePatched' = [pagePatched EXCEPT ![t.client] = TRUE]
                    /\ wraps' = [wraps EXCEPT ![t.client] = @ + 1]
               ELSE UNCHANGED <<pagePatched, wraps>>
    /\ last' = [op |-> "patch_done", ret |-> NoRet]
    /\ Broadcast(<<>>)
    /\ UNCHANGED <<status, qr, lastError, initialized, listenersAttached, client, created,
                   listeners, unsubs, phase, onCalls, handlers, initCalls, destroyCalls,
                   sendCalls>>


\* ------------------------------------------------------------ strings
\* Strings the code inspects are sequences of one-character strings.
DigitChars == {"0", "1", "2", "3", "4", "5", "6", "7", "8", "9"}
SpaceChars == {" ", "\t", "\n"}
UpperChars == <<"A", "B", "C", "D", "E", "F", "G", "H", "I", "J", "K", "L", "M",
                "N", "O", "P", "Q", "R", "S", "T", "U", "V", "W", "X", "Y", "Z">>
LowerChars == <<"a", "b", "c", "d", "e", "f", "g", "h", "i", "j", "k", "l", "m",
                "n", "o", "p", "q", "r", "s", "t", "u", "v", "w", "x", "y", "z">>

RECURSIVE TrimStart(_)
TrimStart(str) ==
    IF str # <<>> /\ Head(str) \in SpaceChars THEN TrimStart(Tail(str)) ELSE str
RECURSIVE TrimEnd(_)
TrimEnd(str) ==
    IF str # <<>> /\ str[Len(str)] \in SpaceChars
    THEN TrimEnd(SubSeq(str, 1, Len(str) - 1)) ELSE str
\* String.prototype.trim
Trim(str) == TrimEnd(TrimStart(str))

LowerChar(ch) ==
    IF \E i \in 1..26 : UpperChars[i] = ch
    THEN LowerChars[CHOOSE i \in 1..26 : UpperChars[i] = ch]
    ELSE ch
\* String.prototype.toLowerCase
ToLowerCase(str) == [i \in 1..Len(str) |-> LowerChar(str[i])]
\* String.prototype.includes, for one character
Includes(str, ch) == \E i \in 1..Len(str) : str[i] = ch

\* raw.replace(/\D/g, '')
OnlyDigits(raw) == SelectSeq(raw, LAMBDA ch : ch \in DigitChars)
StartsWith55(d) == Len(d) >= 2 /\ d[1] = "5" /\ d[2] = "5"
\* (mutant) the prefix is dropped once, by an if in place of the while
StripPrefix_Once(d) ==
    IF StartsWith55(d) /\ Len(d) > 13 THEN SubSeq(d, 3, Len(d)) ELSE d
RECURSIVE StripPrefix(_)
StripPrefix(d) ==
    IF StartsWith55(d) /\ Len(d) > 13 THEN StripPrefix(SubSeq(d, 3, Len(d))) ELSE d
\* normalizeDigits
NormalizeDigits(raw) ==
    LET d == StripPrefix(OnlyDigits(raw))
    IN IF ~StartsWith55(d) /\ Len(d) \in {10, 11} THEN <<"5", "5">> \o d ELSE d

ErrNotConnected == "WhatsApp não está conectado."
ErrEmptyMessage == "Mensagem vazia."
ErrInvalidNumber == "Número inválido."
ErrNoSelf == "Não foi possível resolver o número do WhatsApp conectado."
ErrNotOnWhatsApp == "Este número não está no WhatsApp."
ErrSendFailed == "Falha ao enviar mensagem."
ErrInvalidMedia == "Mídia inválida."
ErrSendMediaFailed == "Falha ao enviar mídia."

\* ------------------------------------------------------------ send inputs
\* destinations: empty, blank, keyword, chat id, national number
Destinations == { <<>>, <<" ">>, <<"M", "e">>, <<"a", "@", "c">>,
                  <<"1", "1", "9", "9", "9", "9", "9", "8", "8", "8", "8">> }
Texts == { <<>>, <<" ">>, <<"o", "i">> }
\* destinations the resolver is exercised with: numbers with and without the prefix
\* 55, with the prefix repeated, with punctuation; no digits; blank; the keywords;
\* chat ids
ResolveInputs ==
    { <<"5", "5", "1", "1", "9", "9", "9", "9", "9", "8", "8", "8", "8">>,
      <<"1", "1", "9", "9", "9", "9", "9", "8", "8", "8", "8">>,
      <<"1", "1", "9", "9", "9", "9", "8", "8", "8", "8">>,
      <<"5", "5", "5", "5", "5", "1", "1", "9", "9", "9", "9", "9", "8", "8", "8", "8">>,
      <<"5", "5", "1", "2", "3", "4", "5", "6", "7", "8", "9", "0", "1", "2", "3", "4">>,
      <<"+", "5", "5", " ", "(", "1", "1", ")", " ", "9", "9", "9", "9", "9", "-", "8", "8", "8", "8">>,
      <<"5", "5", "1", "1", "9", "9", "9", "9", "8", "8", "8">>,
      <<"5", "5", "5", "5", "1", "1", "9", "9", "9", "9", "8", "8", "8", "8">>,
      <<"1", "2", "3">>,
      <<"m", "e", "1">>,
      <<"a", "b", "c">>,
      <<>>,
      <<" ">>,
      <<"m", "e">>,
      <<" ", "S", "E", "L", "F", " ">>,
      <<"a", "@", "c">>,
      <<" ", "1", "@", "c", " ">>,
      <<"@">>,
      <<"m", "e", "@", "c">> }
\* the text these are sent
ResolveText == <<"o", "i">>
\* the connected account's own id (client.info.wid._serialized)
SelfWid == <<"5", "@", "c">>
ChatSuffix == <<"@", "c">>
\* media payloads (data.mimeType, data.base64): valid, blank type, no content
SomeMedia == [mimeType |-> <<"a", "/", "b">>, base64 |-> <<"Q">>]
MediaInputs == { SomeMedia,
                 [mimeType |-> <<" ">>, base64 |-> <<"Q">>],
                 [mimeType |-> <<"a", "/", "b">>, base64 |-> <<>>] }
\* what client.sendMessage() rejects with
SendThrown == {[isError |-> TRUE, message |-> "Evaluation failed: No LID for user"],
               [isError |-> TRUE, message |-> "no lid for user"],
               [isError |-> TRUE, message |-> "timeout"],
               [isError |-> TRUE, message |-> ""],
               [isError |-> FALSE, message |-> ""]}
\* the characters of the messages above
MessageText(msg) ==
    CASE msg = "Evaluation failed: No LID for user" -> <<"E", "v", "a", "l", "u", "a", "t", "i", "o", "n", " ", "f", "a", "i", "l", "e", "d", ":", " ", "N", "o", " ", "L", "I", "D", " ", "f", "o", "r", " ", "u", "s", "e", "r">>
      [] msg = "no lid for user" -> <<"n", "o", " ", "l", "i", "d", " ", "f", "o", "r", " ", "u", "s", "e", "r">>
      [] msg = "timeout" -> <<"t", "i", "m", "e", "o", "u", "t">>
      [] OTHER -> <<>>
\* the pattern of the regular expression /no lid for user/i
NoLidPattern == <<"n", "o", " ", "l", "i", "d", " ", "f", "o", "r", " ", "u", "s", "e", "r">>
\* (mutant) the regular expression without its i flag
MatchesNoLid_CaseSensitive(msg) ==
    \E i \in 1..(Len(MessageText(msg)) - Len(NoLidPattern) + 1) :
        SubSeq(MessageText(msg), i, i + Len(NoLidPattern) - 1) = NoLidPattern
\* /no lid for user/i.test(msg)
MatchesNoLid(msg) ==
    \E i \in 1..(Len(MessageText(msg)) - Len(NoLidPattern) + 1) :
        ToLowerCase(SubSeq(MessageText(msg), i, i + Len(NoLidPattern) - 1)) = NoLidPattern

\* String(client.info?.wid?._serialized || ''): known once the client is ready
SelfIdChoices(c) ==
    IF phase[c] = "ready" THEN {SelfWid}
    ELSE IF phase[c] = "closed" THEN {SelfWid, <<>>}
    ELSE {<<>>}

\* (mutant) the keywords are compared without toLowerCase()
ResolveSync_KeywordsAsWritten(dest, selfId) ==
    LET input == Trim(dest)
    IN IF input = <<>> THEN [kind |-> "fail", error |-> ErrInvalidNumber]
       ELSE IF input \in { <<"m", "e">>, <<"s", "e", "l", "f">> }
       THEN (IF Includes(Trim(selfId), "@")
             THEN [kind |-> "chat", chat |-> Trim(selfId)]
             ELSE [kind |-> "fail", error |-> ErrNoSelf])
       ELSE IF Includes(input, "@") THEN [kind |-> "chat", chat |-> input]
       ELSE IF NormalizeDigits(input) = <<>> THEN [kind |-> "fail", error |-> ErrInvalidNumber]
       ELSE [kind |-> "lookup", digits |-> NormalizeDigits(input)]

\* (mutant) resolveWhatsAppChatId without its test for '@'
ResolveSync_NoChatIds(dest, selfId) ==
    LET input == Trim(dest)
    IN IF input = <<>> THEN [kind |-> "fail", error |-> ErrInvalidNumber]
       ELSE IF ToLowerCase(input) \in { <<"m", "e">>, <<"s", "e", "l", "f">> }
       THEN (IF Includes(Trim(selfId), "@")
             THEN [kind |-> "chat", chat |-> Trim(selfId)]
             ELSE [kind |-> "fail", error |-> ErrNoSelf])
       ELSE IF NormalizeDigits(input) = <<>> THEN [kind |-> "fail", error |-> ErrInvalidNumber]
       ELSE [kind |-> "lookup", digits |-> NormalizeDigits(input)]

\* ------------------------------------------------------------ sendWhatsAppMessage
\* resolveWhatsAppChatId up to its return, its throw or its await of getNumberId()
ResolveSync(dest, selfId) ==
    LET input == Trim(dest)
    IN IF input = <<>> THEN [kind |-> "fail", error |-> ErrInvalidNumber]
       ELSE IF ToLowerCase(input) \in { <<"m", "e">>, <<"s", "e", "l", "f">> }
       THEN (IF Includes(Trim(selfId), "@")
             THEN [kind |-> "chat", chat |-> Trim(selfId)]
             ELSE [kind |-> "fail", error |-> ErrNoSelf])
       ELSE IF Includes(input, "@") THEN [kind |-> "chat", chat |-> input]
       ELSE IF NormalizeDigits(input) = <<>> THEN [kind |-> "fail", error |-> ErrInvalidNumber]
       ELSE [kind |-> "lookup", digits |-> NormalizeDigits(input)]

\* from the resolved chat id: patchInjectedWWebJSIfNeeded() up to its return or its
\* await of page.evaluate(), then client.sendMessage()
AfterResolve(chat, hasPage) ==
    IF ~injectedPatched /\ hasPage
    THEN [pc |-> "patch", chat |-> chat]
    ELSE [pc |-> "deliver", chat |-> chat]

\* (mutant) the status start() reported is not checked
AfterStart_Unchecked(reported, dest, text, selfId, hasPage) ==
    IF Trim(text) = <<>> THEN [pc |-> "failed", error |-> ErrEmptyMessage]
    ELSE LET r == ResolveSync(dest, selfId)
         IN IF r.kind = "fail" THEN [pc |-> "failed", error |-> r.error]
            ELSE IF r.kind = "lookup" THEN [pc |-> "lookup", chat |-> r.digits]
            ELSE AfterResolve(r.chat, hasPage)

\* (mutant) the text is checked after the destination has been resolved
AfterStart_TextCheckedLast(reported, dest, text, selfId, hasPage) ==
    IF reported # "ready" THEN [pc |-> "failed", error |-> ErrNotConnected]
    ELSE LET r == ResolveSync(dest, selfId)
         IN IF r.kind = "fail" THEN [pc |-> "failed", error |-> r.error]
            ELSE IF r.kind = "lookup" THEN [pc |-> "lookup", chat |-> r.digits]
            ELSE IF Trim(text) = <<>> THEN [pc |-> "failed", error |-> ErrEmptyMessage]
            ELSE AfterResolve(r.chat, hasPage)

\* (mutant) the media is checked after the destination has been resolved
AfterStartMedia_MediaCheckedLast(reported, dest, data, selfId, hasPage) ==
    IF reported # "ready" THEN [pc |-> "failed", error |-> ErrNotConnected]
    ELSE LET r == ResolveSync(dest, selfId)
         IN IF r.kind = "fail" THEN [pc |-> "failed", error |-> r.error]
            ELSE IF r.kind = "lookup" THEN [pc |-> "lookup", chat |-> r.digits]
            ELSE IF Trim(data.mimeType) = <<>> \/ Trim(data.base64) = <<>>
            THEN [pc |-> "failed", error |-> ErrInvalidMedia]
            ELSE AfterResolve(r.chat, hasPage)

\* sendWhatsAppMedia from the status start() reported to the next await or the throw
AfterStartMedia(reported, dest, data, selfId, hasPage) ==
    IF reported # "ready" THEN [pc |-> "failed", error |-> ErrNotConnected]
    ELSE IF Trim(data.mimeType) = <<>> \/ Trim(data.base64) = <<>>
    THEN [pc |-> "failed", error |-> ErrInvalidMedia]
    ELSE LET r == ResolveSync(dest, selfId)
         IN IF r.kind = "fail" THEN [pc |-> "failed", error |-> r.error]
            ELSE IF r.kind = "lookup" THEN [pc |-> "lookup", chat |-> r.digits]
            ELSE AfterResolve(r.chat, hasPage)

\* from the status start() reported to the next await or to the throw
AfterStart(reported, dest, text, selfId, hasPage) ==
    IF reported # "ready" THEN [pc |-> "failed", error |-> ErrNotConnected]
    ELSE IF Trim(text) = <<>> THEN [pc |-> "failed", error |-> ErrEmptyMessage]
    ELSE LET r == ResolveSync(dest, selfId)
         IN IF r.kind = "fail" THEN [pc |-> "failed", error |-> r.error]
            ELSE IF r.kind = "lookup" THEN [pc |-> "lookup", chat |-> r.digits]
            ELSE AfterResolve(r.chat, hasPage)

\* the call (client c0 captured at its entry, made at status called, start() having
\* reported status reported, of sendWhatsAppMedia if media) moves to the place o;
\* rest are the other suspended calls
SendMoves(rest, c0, called, reported, media, o) ==
    LET info == [client |-> c0, called |-> called, reported |-> reported, media |-> media]
    IN IF o.pc = "failed"
       THEN /\ tasks' = rest
            /\ sendCalls' = sendCalls
            /\ last' = [op |-> "send_failed", ret |-> NoRet, error |-> o.error, call |-> info]
       ELSE /\ BagCardinality(rest) < MaxTasks
            /\ tasks' = rest (+) SetToBag({[kind |-> "send", pc |-> o.pc, client |-> c0,
                                            called |-> called, reported |-> reported,
                                            media |-> media,
                                            chat |-> o.chat, page |-> client]})
            /\ sendCalls' = IF o.pc = "deliver"
                            THEN [sendCalls EXCEPT ![c0] = @ + 1] ELSE sendCalls
            /\ last' = [op |-> IF o.pc = "deliver" THEN "send_message" ELSE "send_await",
                        ret |-> NoRet, call |-> info]

\* sendWhatsAppMessage(dest, text): through startWhatsApp to the first real await
SendText(dest, text) ==
    /\ sendCalls[client] + SendsInFlight(client) < MaxSends
    /\ StartSync
    /\ IF StartReturnsAtOnce
       THEN \E selfId \in SelfIdChoices(client), hasPage \in HasPageChoices(client, phase) :
               SendMoves(tasks, client, status, status', FALSE,
                         AfterStart(status', dest, text, selfId, hasPage))
       ELSE /\ TaskCount < MaxTasks
            /\ initCalls[client] < MaxInits
            /\ tasks' = AddTask([kind |-> "send", pc |-> "start", client |-> client,
                                 called |-> status, media |-> FALSE,
                                 dest |-> dest, text |-> text])
            /\ sendCalls' = sendCalls
            /\ last' = [op |-> "send_await", ret |-> NoRet,
                        call |-> [client |-> client, called |-> status, reported |-> Null,
                                  media |-> FALSE]]

\* sendWhatsAppMedia(dest, data): through startWhatsApp to the first real await
SendMedia(dest, data) ==
    /\ sendCalls[client] + SendsInFlight(client) < MaxSends
    /\ StartSync
    /\ IF StartReturnsAtOnce
       THEN \E selfId \in SelfIdChoices(client), hasPage \in HasPageChoices(client, phase) :
               SendMoves(tasks, client, status, status', TRUE,
                         AfterStartMedia(status', dest, data, selfId, hasPage))
       ELSE /\ TaskCount < MaxTasks
            /\ initCalls[client] < MaxInits
            /\ tasks' = AddTask([kind |-> "send", pc |-> "start", client |-> client,
                                 called |-> status, media |-> TRUE,
                                 dest |-> dest, data |-> data])
            /\ sendCalls' = sendCalls
            /\ last' = [op |-> "send_await", ret |-> NoRet,
                        call |-> [client |-> client, called |-> status, reported |-> Null,
                                  media |-> TRUE]]

\* the checks a suspended call makes once start() has reported
AfterStartOf(t, reported, selfId, hasPage) ==
    IF t.media THEN AfterStartMedia(reported, t.dest, t.data, selfId, hasPage)
    ELSE AfterStart(reported, t.dest, t.text, selfId, hasPage)

\* the client.initialize() a suspended sendWhatsAppMessage awaits in startWhatsApp
\* resolves: start() reports the status of that moment
SendInitOk(t) ==
    /\ t \in BagToSet(tasks) /\ t.kind = "send" /\ t.pc = "start"
    /\ Broadcast(<<>>)
    /\ \E selfId \in SelfIdChoices(t.client), hasPage \in HasPageChoices(client, phase) :
          SendMoves(DropTask(t), t.client, t.called, status, t.media,
                    AfterStartOf(t, status, selfId, hasPage))
    /\ UNCHANGED <<stateVars, client, created, listeners, unsubs,
                   phase, onCalls, handlers, initCalls, destroyCalls, pagePatched, wraps>>

\* it rejects: the catch block, then start() reports error
SendInitFail(t, e) ==
    /\ t \in BagToSet(tasks) /\ t.kind = "send" /\ t.pc = "start"
    /\ InitCatch(t.client, e)
    /\ SendMoves(DropTask(t), t.client, t.called, status', t.media,
                 AfterStartOf(t, status', <<>>, FALSE))

\* what getNumberId() rejects with
LookupError == "Evaluation failed: lookup"
\* (mutant) the lookup is made outside the try block
LookupFailure_Rethrown(result) == IF result = "throws" THEN LookupError ELSE ErrNotOnWhatsApp
\* the error resolveWhatsAppChatId throws when getNumberId() gave no id or threw
LookupFailure(result) == ErrNotOnWhatsApp

\* getNumberId() settles: an id, nothing, or a throw
LookupDone(t, result) ==
    /\ t \in BagToSet(tasks) /\ t.kind = "send" /\ t.pc = "lookup"
    /\ Broadcast(<<>>)
    /\ \E hasPage \in HasPageChoices(client, phase) :
          SendMoves(DropTask(t), t.client, t.called, t.reported, t.media,
                    IF result = "found" THEN AfterResolve(t.chat \o ChatSuffix, hasPage)
                    ELSE [pc |-> "failed", error |-> LookupFailure(result)])
    /\ UNCHANGED <<stateVars, client, created, listeners, unsubs,
                   phase, onCalls, handlers, initCalls, destroyCalls, pagePatched, wraps>>

\* page.evaluate() of the patch settles, then client.sendMessage() is called
SendPatchDone(t, throws, hasWWebJS) ==
    /\ t \in BagToSet(tasks) /\ t.kind = "send" /\ t.pc = "patch"
    /\ IF throws
       THEN /\ injectedPatched' = PatchedAfterThrow(injectedPatched)
            /\ UNCHANGED <<pagePatched, wraps>>
       ELSE /\ injectedPatched' = TRUE
            /\ IF ShouldWrap(pagePatched[t.page], hasWWebJS)
               THEN /\ pagePatched' = [pagePatched EXCEPT ![t.page] = TRUE]
                    /\ wraps' = [wraps EXCEPT ![t.page] = @ + 1]
               ELSE UNCHANGED <<pagePatched, wraps>>
    /\ Broadcast(<<>>)
    /\ SendMoves(DropTask(t), t.client, t.called, t.reported, t.media,
                 [pc |-> "deliver", chat |-> t.chat])
    /\ UNCHANGED <<status, qr, lastError, initialized, listenersAttached, client, created,
                   listeners, unsubs, phase, onCalls, handlers, initCalls, destroyCalls>>

\* the error sendWhatsAppMessage (sendWhatsAppMedia if media) throws when
\* client.sendMessage() rejected with e
SendFailureMessage(e, media) ==
    LET msg == IF e.isError THEN e.message ELSE ""
    IN IF MatchesNoLid(msg) THEN ErrNotOnWhatsApp
       ELSE IF msg # "" THEN msg
       ELSE IF e.isError THEN e.message
       ELSE IF media THEN ErrSendMediaFailed ELSE ErrSendFailed

\* client.sendMessage() resolves
DeliverOk(t) ==
    /\ t \in BagToSet(tasks) /\ t.kind = "send" /\ t.pc = "deliver"
    /\ tasks' = DropTask(t)
    /\ last' = [op |-> "send_ok", ret |-> NoRet,
                call |-> [client |-> t.client, called |-> t.called, reported |-> t.reported,
                          media |-> t.media]]
    /\ Broadcast(<<>>)
    /\ UNCHANGED <<stateVars, client, created, listeners, unsubs, clientVars>>

\* client.sendMessage() rejects with e
DeliverFail(t, e) ==
    /\ t \in BagToSet(tasks) /\ t.kind = "send" /\ t.pc = "deliver"
    /\ tasks' = DropTask(t)
    /\ last' = [op |-> "send_failed", ret |-> NoRet, error |-> SendFailureMessage(e, t.media),
                call |-> [client |-> t.client, called |-> t.called, reported |-> t.reported,
                          media |-> t.media],
                thrown |-> e]
    /\ Broadcast(<<>>)
    /\ UNCHANGED <<stateVars, client, created, listeners, unsubs, clientVars>>

\* ------------------------------------------------------------ events stream route
\* GET of the events stream: each request builds its own ReadableStream with its
\* own listener closure, interval timer and cleanup.  A stream is the handle its
\* subscribeWhatsAppEvents call returned: [listener, calls, timer], calls being the
\* calls of unsubscribe() and timer whether its interval is set.

\* send(event, data): the frame written to the stream for one event
StreamFrame(evt) == [event |-> evt.type, data |-> evt.data]

\* what the listener of a stream writes when called with the events d, and what
\* the listener l has written in the last step
FramesWritten(d) == [i \in 1..Len(d) |-> StreamFrame(d[i])]
StreamWrites(l) == FramesWritten(delivered[l])

\* (mutant) start(controller) does not register the listener
ListenersAfterConnect_Later(l) == listeners
\* the listener list when start(controller) returns
ListenersAfterConnect(l) == Append(listeners, l)

\* (mutant) cleanup does not call unsubscribe()
ListenersAfterCancel_Kept(l) == listeners
\* the listener list after cleanup's unsubscribe()
ListenersAfterCancel(l) == RemoveLast(listeners, l)

\* whether the interval is set after cleanup's clearInterval(interval)
TimerAfterCancel == FALSE

\* the streams that were connected and not cancelled
OpenStreams == {h \in DOMAIN unsubs : unsubs[h].calls = 0}

\* GET: start(controller) writes the state of this moment, subscribes the
\* stream's listener l (a new closure) and sets the interval, in one turn
StreamOpen(l) ==
    /\ Len(unsubs) < MaxSubs
    /\ \A h \in DOMAIN unsubs : unsubs[h].listener # l
    /\ listeners' = ListenersAfterConnect(l)
    /\ unsubs' = Append(unsubs, [listener |-> l, calls |-> 0, timer |-> TRUE])
    /\ last' = [op |-> "stream_open", ret |-> GetWhatsAppStatus(status, qr, lastError),
                handle |-> Len(unsubs) + 1,
                frames |-> << StreamFrame(StateEvent(status, qr, lastError)) >>]
    /\ Broadcast(GetStatusEvents)
    /\ UNCHANGED <<stateVars, client, created, tasks, clientVars>>

\* cancel() of stream h: cleanup clears the interval, unsubscribes and closes
StreamCancel(h) ==
    /\ h \in OpenStreams
    /\ listeners' = ListenersAfterCancel(unsubs[h].listener)
    /\ unsubs' = [unsubs EXCEPT ![h] = [listener |-> @.listener, calls |-> @.calls + 1,
                                        timer |-> TimerAfterCancel]]
    /\ last' = [op |-> "stream_cancel", ret |-> NoRet, handle |-> h]
    /\ Broadcast(<<>>)
    /\ UNCHANGED <<stateVars, client, created, tasks, clientVars>>

\* the interval of stream h fires: a ping comment is written to it
KeepAlive(h) ==
    /\ h \in DOMAIN unsubs
    /\ unsubs[h].timer
    /\ last' = [op |-> "ping", ret |-> NoRet, handle |-> h]
    /\ Broadcast(<<>>)
    /\ UNCHANGED <<stateVars, client, created, listeners, unsubs, tasks, clientVars>>

Next ==
    \/ GetStatus
    \/ Start
    \/ \E t \in BagToSet(tasks) : InitOk(t)
    \/ \E t \in BagToSet(tasks), e \in Thrown : InitFail(t, e)
    \/ \E a, b \in BOOLEAN : ResetBegin(a, b)
    \/ \E t \in BagToSet(tasks) : ResetFinish(t)
    \/ \E c \in ClientIds, token \in QrTokens : ClientQr(c, token)
    \/ \E c \in ClientIds : ClientReady(c)
    \/ \E c \in ClientIds, m \in Reasons : ClientAuthFailure(c, m)
    \/ \E c \in ClientIds, r \in Reasons : ClientDisconnected(c, r)
    \/ \E c \in ClientIds, msg \in Inbound : ClientMessage(c, msg)
    \/ \E t \in BagToSet(tasks), a, b \in BOOLEAN : PatchFinish(t, a, b)

Spec == Init /\ [][Next]_vars

\* the session on one client instance (no reset) with sendWhatsAppMessage calls
NextSend ==
    \/ Start
    \/ \E t \in BagToSet(tasks) : InitOk(t)
    \/ \E t \in BagToSet(tasks), e \in Thrown : InitFail(t, e)
    \/ \E c \in ClientIds, token \in QrTokens : ClientQr(c, token)
    \/ \E c \in ClientIds : ClientReady(c)
    \/ \E c \in ClientIds, m \in Reasons : ClientAuthFailure(c, m)
    \/ \E c \in ClientIds, r \in Reasons : ClientDisconnected(c, r)
    \/ \E t \in BagToSet(tasks), a, b \in BOOLEAN : PatchFinish(t, a, b)
    \/ \E dest \in Destinations, text \in Texts : SendText(dest, text)
    \/ \E dest \in Destinations, data \in MediaInputs : SendMedia(dest, data)
    \/ \E t \in BagToSet(tasks) : SendInitOk(t)
    \/ \E t \in BagToSet(tasks), e \in Thrown : SendInitFail(t, e)
    \/ \E t \in BagToSet(tasks), r \in {"found", "none", "throws"} : LookupDone(t, r)
    \/ \E t \in BagToSet(tasks), a, b \in BOOLEAN : SendPatchDone(t, a, b)
    \/ \E t \in BagToSet(tasks) : DeliverOk(t)
    \/ \E t \in BagToSet(tasks), e \in SendThrown : DeliverFail(t, e)

SpecSend == Init /\ [][NextSend]_vars

\* the broadcaster with subscribers, on one client instance (no reset)
NextPubSub ==
    \/ GetStatus
    \/ Start
    \/ \E t \in BagToSet(tasks) : InitOk(t)
    \/ \E t \in BagToSet(tasks), e \in Thrown : InitFail(t, e)
    \/ \E l \in ListenerIds : Subscribe(l)
    \/ \E h \in 1..MaxSubs : Unsubscribe(h)
    \/ \E c \in ClientIds, token \in QrTokens : ClientQr(c, token)
    \/ \E c \in ClientIds : ClientReady(c)
    \/ \E c \in ClientIds, m \in Reasons : ClientAuthFailure(c, m)
    \/ \E c \in ClientIds, r \in Reasons : ClientDisconnected(c, r)
    \/ \E c \in ClientIds, msg \in Inbound : ClientMessage(c, msg)
    \/ \E t \in BagToSet(tasks), a, b \in BOOLEAN : PatchFinish(t, a, b)

SpecPubSub == Init /\ [][NextPubSub]_vars

\* the broadcaster with listeners that call back into the module
NextCallbacks ==
    \/ Start
    \/ \E t \in BagToSet(tasks) : InitOk(t)
    \/ \E t \in BagToSet(tasks), e \in Thrown : InitFail(t, e)
    \/ \E l \in ListenerIds : Subscribe(l)
    \/ \E h \in 1..MaxSubs : Unsubscribe(h)
    \/ \E c \in ClientIds, token \in QrTokens : ClientQr(c, token)
    \/ \E c \in ClientIds : ClientReady(c)
    \/ \E c \in ClientIds, r \in Reasons : ClientDisconnected(c, r)
    \/ \E c \in ClientIds, r \in Reasons, pos \in 1..MaxSubs, cb \in ListenerCallbacks :
          ClientDisconnectedCallback(c, r, pos, cb)
    \/ \E t \in BagToSet(tasks), a, b \in BOOLEAN : PatchFinish(t, a, b)

SpecCallbacks == Init /\ [][NextCallbacks]_vars

\* the singleton across resets, with subscribers
NextHandle ==
    \/ GetStatus
    \/ Start
    \/ \E t \in BagToSet(tasks) : InitOk(t)
    \/ \E a, b \in BOOLEAN : ResetBegin(a, b)
    \/ \E t \in BagToSet(tasks) : ResetFinish(t)
    \/ \E l \in ListenerIds : Subscribe(l)
    \/ \E h \in 1..MaxSubs : Unsubscribe(h)
    \/ \E c \in ClientIds, token \in QrTokens : ClientQr(c, token)
    \/ \E c \in ClientIds, r \in Reasons : ClientDisconnected(c, r)

SpecHandle == Init /\ [][NextHandle]_vars

\* sendWhatsAppMessage to the resolver's destinations, on one client instance
NextResolve ==
    \/ Start
    \/ \E t \in BagToSet(tasks) : InitOk(t)
    \/ \E c \in ClientIds : ClientReady(c)
    \/ \E t \in BagToSet(tasks), a, b \in BOOLEAN : PatchFinish(t, a, b)
    \/ \E dest \in ResolveInputs : SendText(dest, ResolveText)
    \/ \E t \in BagToSet(tasks) : SendInitOk(t)
    \/ \E t \in BagToSet(tasks), r \in {"found", "none", "throws"} : LookupDone(t, r)
    \/ \E t \in BagToSet(tasks), a, b \in BOOLEAN : SendPatchDone(t, a, b)
    \/ \E t \in BagToSet(tasks) : DeliverOk(t)

SpecResolve == Init /\ [][NextResolve]_vars

\* sendWhatsAppMessage and sendWhatsAppMedia across a reset of the client
NextSendReset ==
    \/ Start
    \/ \E t \in BagToSet(tasks) : InitOk(t)
    \/ \E a, b \in BOOLEAN : ResetBegin(a, b)
    \/ \E t \in BagToSet(tasks) : ResetFinish(t)
    \/ \E c \in ClientIds : ClientReady(c)
    \/ \E t \in BagToSet(tasks), a, b \in BOOLEAN : PatchFinish(t, a, b)
    \/ \E dest \in Destinations : SendText(dest, ResolveText)
    \/ \E dest \in Destinations : SendMedia(dest, SomeMedia)
    \/ \E t \in BagToSet(tasks) : SendInitOk(t)
    \/ \E t \in BagToSet(tasks), r \in {"found", "none", "throws"} : LookupDone(t, r)
    \/ \E t \in BagToSet(tasks), a, b \in BOOLEAN : SendPatchDone(t, a, b)
    \/ \E t \in BagToSet(tasks) : DeliverOk(t)

SpecSendReset == Init /\ [][NextSendReset]_vars

\* forced starts among plain starts and client events; while a route's
\* continuation is queued only continuations run: that one, and the return of
\* another reset whose destroy() has settled with it
NextForce ==
    \/ \E t \in BagToSet(tasks) : ForceResetDone(t)
    \/ \E t \in BagToSet(tasks) : ForceStart(t)
    \/ ~ContinuationReady /\ \E a, b \in BOOLEAN : ForceBegin(a, b)
    \/ ~ContinuationReady /\ Start
    \/ ~ContinuationReady /\ \E t \in BagToSet(tasks) : InitOk(t)
    \/ ~ContinuationReady /\ \E c \in ClientIds, token \in QrTokens : ClientQr(c, token)
    \/ ~ContinuationReady /\ \E c \in ClientIds, r \in Reasons : ClientDisconnected(c, r)

SpecForce == Init /\ [][NextForce]_vars

\* the session on one client instance (no reset) with connections to the events
\* stream route
NextStream ==
    \/ Start
    \/ \E t \in BagToSet(tasks) : InitOk(t)
    \/ \E t \in BagToSet(tasks), e \in Thrown : InitFail(t, e)
    \/ \E l \in ListenerIds : StreamOpen(l)
    \/ \E h \in 1..MaxSubs : StreamCancel(h)
    \/ \E h \in 1..MaxSubs : KeepAlive(h)
    \/ \E c \in ClientIds, token \in QrTokens : ClientQr(c, token)
    \/ \E c \in ClientIds : ClientReady(c)
    \/ \E c \in ClientIds, m \in Reasons : ClientAuthFailure(c, m)
    \/ \E c \in ClientIds, r \in Reasons : ClientDisconnected(c, r)
    \/ \E c \in ClientIds, msg \in Inbound : ClientMessage(c, msg)
    \/ \E t \in BagToSet(tasks), a, b \in BOOLEAN : PatchFinish(t, a, b)

SpecStream == Init /\ [][NextStream]_vars

\* ------------------------------------------------------------ claims
IdleSnapshot == [status |-> "idle", qr |-> Null, lastError |-> Null]
Snapshot == [status |-> status, qr |-> qr, lastError |-> lastError]
ProgramVars == <<stateVars, client, created, listeners, unsubs, tasks, clientVars>>
SendOps == {"send_await", "send_failed", "send_message", "send_ok"}
ExpectedInitMessage(e) == IF e.isError THEN e.message ELSE "Falha ao inicializar WhatsApp."

\* C1: a start() made while status is initializing, qr or ready changes no state,
\* emits nothing, calls initialize() on no client and returns the current
\* {status, qr, lastError}.
C1_StartWhileBusyIsNoOp ==
    [][(Start /\ status \in {"initializing", "qr", "ready"})
         => /\ UNCHANGED ProgramVars
            /\ events' = <<>>
            /\ last'.ret = Snapshot]_vars

\* a start() has returned at once on a client whose one initialize() was called
C1_Witness ==
    /\ last.op = "start_noop"
    /\ status \in {"initializing", "qr", "ready"}
    /\ initCalls[client] = 1

\* C2 (as stated, in the case it names: no initialize() in flight): a start() made
\* while status is idle, disconnected or error sets status to initializing, emits
\* one state event and calls initialize() on the current client exactly once,
\* also after an earlier initialization has succeeded.
C2_StartAlwaysInitializes ==
    [][(Start /\ status \in {"idle", "disconnected", "error"}
              /\ \A t \in BagToSet(tasks) : t.kind # "start")
         => /\ status' = "initializing"
            /\ events' = <<StateEvent("initializing", qr', lastError')>>
            /\ initCalls'[client] = initCalls[client] + 1]_vars

\* C3: when reset() completes, what it returns and what getStatus() returns right
\* after it are {status: idle, qr: null, lastError: null}.
C3_ResetYieldsIdle ==
    last.op = "reset" => last.ret = IdleSnapshot /\ Snapshot = IdleSnapshot

\* reset() has completed after a start(), and removeAllListeners() had thrown
C3_Witness ==
    /\ last.op = "reset"
    /\ client = 2
    /\ initCalls[1] > 0
    /\ handlers[1]["qr"] > 0

\* C4 (as stated): a sendText called while status is not ready fails with
\* NotConnected and client.sendMessage() is never called for it.
C4_NotReadyAtCallFails ==
    (last.op \in SendOps /\ last.call.called # "ready") =>
        \/ last.op = "send_failed" /\ last.error = ErrNotConnected
        \/ last.op = "send_await" /\ last.call.reported = Null

\* a call whose start() reported another status than ready has failed with
\* NotConnected, as has every call made at initializing or qr; every call past
\* the check had ready reported
C4_FailsUnlessReportedReady ==
    /\ last.op \in SendOps =>
          /\ last.call.reported \notin {Null, "ready"}
                => last.op = "send_failed" /\ last.error = ErrNotConnected
          /\ last.call.called \in {"initializing", "qr"}
                => last.op = "send_failed" /\ last.error = ErrNotConnected
          /\ last.op \in {"send_message", "send_ok"} => last.call.reported = "ready"
    /\ \A t \in BagToSet(tasks) :
          (t.kind = "send" /\ t.pc # "start") => t.reported = "ready"
\* client.sendMessage() is called only by a call for which ready was reported
C4_SendMessageOnlyIfReportedReady ==
    [][sendCalls' # sendCalls
         => /\ last'.op = "send_message"
            /\ last'.call.reported = "ready"
            /\ last'.call.called \notin {"initializing", "qr"}]_vars
\* C4 (amended): a sendText whose start() reports a status other than ready fails
\* with NotConnected and client.sendMessage() is never called for it; this is so
\* for every call made while status is initializing or qr.
C4_NotReadyReportedFails ==
    []C4_FailsUnlessReportedReady /\ C4_SendMessageOnlyIfReportedReady

\* a sendText made while the pairing token is shown has failed with NotConnected
C4_Witness ==
    /\ last.op = "send_failed"
    /\ last.error = ErrNotConnected
    /\ last.call.called = "qr"
    /\ status = "qr"
    /\ sendCalls[client] = 0

\* C5 (as stated): qr is non-null only while status = qr.
C5_QrOnlyInStatusQr == qr # Null => status = "qr"

\* C6: the five handlers are registered at most once on every client instance and
\* never on one that was not constructed; the current client has each exactly once
\* from the first start() or reset() on, however many calls follow.
C6_ListenersOncePerClient ==
    \A c \in ClientIds, k \in EventKinds :
        /\ onCalls[c][k] <= 1
        /\ c > created => onCalls[c][k] = 0
        /\ (c = client /\ (listenersAttached \/ initCalls[c] > 0 \/ created > 1))
              => onCalls[c][k] = 1

\* a second start() on the client a reset() produced, the old client keeping its one
C6_Witness ==
    /\ last.op = "start_noop"
    /\ client = 2
    /\ initCalls[2] > 0
    /\ onCalls[1]["qr"] = 1
    /\ onCalls[2]["qr"] = 1

\* C7 (as stated): status changes only along the specified transitions: to
\* initializing only by start(), to qr only from initializing, to ready only from
\* initializing or qr, to disconnected or error only from a non-idle status, to
\* idle only by reset().
C7_OnlySpecifiedTransitions ==
    [][status' # status =>
         /\ status' = "initializing" => last'.op \in {"start", "start_await"}
         /\ status' = "qr" => status = "initializing"
         /\ status' = "ready" => status \in {"initializing", "qr"}
         /\ status' \in {"disconnected", "error"} => status # "idle"
         /\ status' = "idle" => last'.op = "reset"]_vars

\* right after the catch block: error, the message, the guard clear, the two events
C8_AfterInitFailure ==
    last.op = "start_failed" =>
        /\ status = "error"
        /\ lastError = ExpectedInitMessage(last.thrown)
        /\ ~initialized
        /\ events = << [type |-> "error", data |-> [message |-> ExpectedInitMessage(last.thrown)]],
                       StateEvent("error", qr, ExpectedInitMessage(last.thrown)) >>
\* the start() made next calls initialize() on the current client
C8_RetryInitializes ==
    [][(Start /\ last.op = "start_failed")
         => /\ initCalls'[client] = initCalls[client] + 1
            /\ last'.op = "start_await"]_vars
\* C8: when initialize() throws inside start(), status is error, lastError is the
\* message, the initialized guard is clear and an error event then a state event
\* were emitted; a start() made next calls initialize() again.
C8_InitFailurePermitsRetry == []C8_AfterInitFailure /\ C8_RetryInitializes

\* the start() after a failed one has called initialize() a second time
C8_Witness ==
    /\ last.op = "start_await"
    /\ initCalls[client] = 2
    /\ status = "initializing"

\* a step that changes status, qr or lastError ends with a state event carrying
\* the new values
C9_ChangeEmitsState ==
    [][Snapshot' # Snapshot
         => /\ events' # <<>>
            /\ events'[Len(events')] = StateEvent(status', qr', lastError')]_vars
\* between steps the latest state event is what getStatus() returns
C9_LatestStateIsCurrent ==
    IF lastState = NoRet THEN Snapshot = IdleSnapshot ELSE lastState = Snapshot
\* C9: every change of status, qr or lastError is followed, before any further
\* change, by a state event carrying the new values, so whenever no operation is
\* running the latest state event equals what getStatus() returns.
C9_StateEventFollowsChange == []C9_LatestStateIsCurrent /\ C9_ChangeEmitsState

\* the disconnected handler has run while a pairing token was held
C9_Witness ==
    /\ last.op = "disconnected"
    /\ lastState = [status |-> "disconnected", qr |-> "qrA", lastError |-> "LOGOUT"]

\* C10: when the client emits qr, every subscriber gets a qr event with the token
\* and then a state event with status qr and the same token, and nothing else.
C10_QrThenState ==
    last.op = "qr" =>
        \A l \in ListenerIds :
            delivered[l] =
                Repeat([type |-> "qr", data |-> [qr |-> last.token]], Occurrences(listeners, l))
                \o Repeat(StateEvent("qr", last.token, Null), Occurrences(listeners, l))

\* two subscribers, each subscribed once, have received the qr emission
C10_Witness ==
    /\ last.op = "qr"
    /\ listeners = <<"L1", "L2">>
    /\ delivered["L1"] = << [type |-> "qr", data |-> [qr |-> "qrB"]],
                            StateEvent("qr", "qrB", Null) >>
    /\ delivered["L2"] = delivered["L1"]

\* the unsubscribe functions of listener l that have not been called
LiveHandles(l) == {h \in DOMAIN unsubs : unsubs[h].listener = l /\ unsubs[h].calls = 0}

\* d holds events of evs in the order of evs (an event may be repeated)
RECURSIVE Ordered(_, _)
Ordered(d, evs) ==
    IF d = <<>> THEN TRUE
    ELSE IF evs = <<>> THEN FALSE
    ELSE IF Head(d) = Head(evs) THEN Ordered(Tail(d), evs)
    ELSE Ordered(d, Tail(evs))

\* C11 (as stated): a listener is called with every event emitted while it is
\* subscribed, and is never called before its subscribe() nor once its
\* unsubscribe() has been called, also when unsubscribe() is called while an
\* event is being delivered.  (Stated for unsubscribe functions called at most
\* once each.)
C11_DeliveredOnlyWhileSubscribed ==
    (\A h \in DOMAIN unsubs : unsubs[h].calls <= 1) =>
        IF last.op = "disconnected_cb"
        THEN \A i, j \in DOMAIN last.log :
                (/\ i < j
                 /\ last.log[i].kind = "unsub"
                 /\ last.log[j].kind = "deliver"
                 /\ last.log[j].to = last.log[i].listener)
                    => LiveHandles(last.log[j].to) # {}
        ELSE \A l \in ListenerIds :
                IF LiveHandles(l) = {} THEN delivered[l] = <<>>
                ELSE \A k \in DOMAIN events : \E n \in DOMAIN delivered[l] :
                        delivered[l][n] = events[k]

\* C12 (as stated): an unsubscribe function removes the subscription that produced
\* it and nothing else, however often it is called: each listener has as many
\* entries in the listener list as it has unsubscribe functions not yet called.
C12_UnsubscribeRemovesOnlyItsOwn ==
    \A l \in ListenerIds : Occurrences(listeners, l) = Cardinality(LiveHandles(l))

\* C13 (as stated): every subscriber receives the events of a step in the order
\* in which they were emitted, also when a listener calls start() while an event
\* is being delivered.
C13_DeliveredInEmissionOrder ==
    \A l \in ListenerIds : Ordered(delivered[l], events)

OneOfEach == [k \in EventKinds |-> 1]

\* C14: reset() always completes: also when removeAllListeners() or destroy()
\* threw, it has installed a new client, restored the idle state, attached the
\* five handlers to the new client and broadcast one state event, and it returns
\* the idle snapshot.
C14_ResetAlwaysCompletes ==
    last.op = "reset" =>
        /\ client = created
        /\ destroyCalls[client] = 0 /\ initCalls[client] = 0 /\ phase[client] = "new"
        /\ Snapshot = IdleSnapshot
        /\ ~initialized /\ ~injectedPatched
        /\ listenersAttached
        /\ onCalls[client] = OneOfEach /\ handlers[client] = OneOfEach
        /\ events = << StateEvent("idle", Null, Null) >>
        /\ last.ret = IdleSnapshot

\* reset() has completed although both removeAllListeners() and destroy() threw
C14_Witness ==
    /\ last.op = "reset"
    /\ last.detachThrew /\ last.destroyThrew
    /\ events = << StateEvent("idle", Null, Null) >>
    /\ handlers[client]["qr"] = 1

\* the client changes only in the turn in which reset() completes, and in that
\* turn status, qr, lastError and the guards are reset with it
C15_ClientAndStateTogether ==
    [][/\ client' # client
          => /\ last'.op = "reset"
             /\ Snapshot' = IdleSnapshot
             /\ ~initialized' /\ ~injectedPatched' /\ listenersAttached'
             /\ handlers'[client'] = OneOfEach
       /\ last'.op = "reset" => client' # client]_vars
\* while reset() is suspended in destroy() neither the client nor the state is touched
C15_NothingBeforeDestroySettles ==
    [][(\E a, b \in BOOLEAN : ResetBegin(a, b))
         => UNCHANGED <<stateVars, client, created>>]_vars
\* C15: on reset() the client and the connection state are replaced together in
\* one turn: no operation or handler runs with the new client and a pre-reset
\* status, qr, lastError or guard, nor with the state reset and the old client.
C15_ResetReplacesAtomically == C15_ClientAndStateTogether /\ C15_NothingBeforeDestroySettles

\* reset() has completed while the old client was showing a pairing token
C15_Witness ==
    /\ last.op = "reset"
    /\ client = 2
    /\ phase[1] = "pairing"
    /\ qr = Null

\* one client is current, the latest constructed, and no other was ever touched
C17_OneCurrentClient ==
    /\ client = created
    /\ created \in ClientIds
    /\ \A c \in ClientIds :
          c > created => /\ phase[c] = "new" /\ onCalls[c] = NoHandlers
                         /\ initCalls[c] = 0 /\ destroyCalls[c] = 0
\* a client is constructed only when reset() completes; the broadcaster, with its
\* subscribers, stays the same
C17_OnlyResetConstructs ==
    [][/\ created' # created => last'.op = "reset" /\ created' = created + 1
       /\ last'.op = "reset" => listeners' = listeners /\ unsubs' = unsubs
       /\ GetStatus => UNCHANGED ProgramVars]_vars
\* C17: every operation works on the same handle: a client is constructed only by
\* the first use and by reset(), exactly one client is current at any time, and
\* the state and the broadcaster are never created again.
C17_SingleHandle == []C17_OneCurrentClient /\ C17_OnlyResetConstructs

\* two subscribers made before a reset() have received its state event
C17_Witness ==
    /\ last.op = "reset"
    /\ client = 2
    /\ listeners = <<"L1", "L2">>
    /\ delivered["L1"] = << StateEvent("idle", Null, Null) >>
    /\ delivered["L2"] = << StateEvent("idle", Null, Null) >>

\* the calls suspended in client.initialize() on client c
InitsInFlight(c) ==
    BagCardinality([t \in {u \in BagToSet(tasks) :
                             /\ u.client = c
                             /\ \/ u.kind = "start"
                                \/ u.kind = "send" /\ u.pc = "start"}
                      |-> CopiesIn(t, tasks)])

\* initialize() is never in flight twice on a client
C16_OneInitializeInFlight == \A c \in ClientIds : InitsInFlight(c) <= 1
\* a call invokes initialize() only on the current client, once, with none in
\* flight and the guard clear; the guard is cleared only by a failed initialize()
C16_OnlyFirstCallInitializes ==
    [][/\ \A c \in ClientIds :
             initCalls'[c] # initCalls[c]
                => /\ initCalls'[c] = initCalls[c] + 1
                   /\ c = client
                   /\ InitsInFlight(c) = 0
                   /\ ~initialized
       /\ (initialized /\ ~initialized') => last'.op \in {"start_failed", "send_failed"}]_vars
\* C16: with start() called by several callers and no reset(), only the first
\* call enters initialization: initialize() is never in flight twice and is
\* invoked again only after an invocation has failed.
C16_ConcurrentStartsInitializeOnce ==
    []C16_OneInitializeInFlight /\ C16_OnlyFirstCallInitializes

\* a start() made at disconnected while another call is suspended in initialize()
\* has returned without calling initialize()
C16_Witness ==
    /\ last.op = "start"
    /\ status = "initializing"
    /\ InitsInFlight(client) = 1
    /\ initCalls[client] = 1

\* C18: in every state with status idle, initializing, qr or ready, lastError is
\* null.
C18_NoErrorOnGoodStatus ==
    status \in {"idle", "initializing", "qr", "ready"} => lastError = Null

\* a start() made after a failed initialization has cleared lastError
C18_Witness ==
    /\ last.op = "start_await"
    /\ initCalls[client] = 2
    /\ client = 1
    /\ status = "initializing"
    /\ lastError = Null
    /\ lastState = [status |-> "initializing", qr |-> Null, lastError |-> Null]

\* the messages of SendThrown that contain 'no lid for user' in some letter case
NoLidMessages == {"Evaluation failed: No LID for user", "no lid for user"}

\* C19: when client.sendMessage() rejects with an Error whose message contains
\* 'no lid for user' in any letter case, sendText and sendMedia fail with
\* 'Este número não está no WhatsApp.'; with any other message they fail with
\* that message; the send is not retried and status, qr and lastError are unchanged.
C19_SendFailureClassified ==
    [][\A t \in BagToSet(tasks), e \in SendThrown :
          (DeliverFail(t, e) /\ e.isError /\ e.message # "")
             => /\ last'.op = "send_failed"
                /\ last'.call.media = t.media
                /\ last'.error = IF e.message \in NoLidMessages
                                 THEN ErrNotOnWhatsApp ELSE e.message
                /\ sendCalls' = sendCalls
                /\ tasks' = DropTask(t)
                /\ UNCHANGED stateVars
                /\ events' = <<>>]_vars

\* a sendMedia has failed as not on the network, the client having rejected with
\* the mixed-case message
C19_Witness ==
    /\ last.op = "send_failed"
    /\ "thrown" \in DOMAIN last
    /\ last.thrown = [isError |-> TRUE, message |-> "Evaluation failed: No LID for user"]
    /\ last.call.media
    /\ last.error = ErrNotOnWhatsApp
    /\ sendCalls[last.call.client] = 1
    /\ status = "ready"

\* C20: with the connection ready, sendText with empty or whitespace-only text
\* fails with 'Mensagem vazia.' before the destination is resolved: no directory
\* lookup, no patch and no client.sendMessage() is made for it.
C20_EmptyTextFailsFirst ==
    [][/\ \A dest \in Destinations, text \in Texts :
             (SendText(dest, text) /\ status = "ready" /\ Trim(text) = <<>>)
                => /\ last'.op = "send_failed"
                   /\ last'.error = ErrEmptyMessage
                   /\ tasks' = tasks
                   /\ UNCHANGED <<stateVars, sendCalls, pagePatched, wraps>>
       /\ \A t \in BagToSet(tasks) :
             (/\ SendInitOk(t) /\ ~t.media
              /\ status = "ready" /\ Trim(t.text) = <<>>)
                => /\ last'.op = "send_failed"
                   /\ last'.error = ErrEmptyMessage
                   /\ tasks' = DropTask(t)
                   /\ UNCHANGED <<stateVars, sendCalls, pagePatched, wraps>>]_vars

\* a sendText made at ready with blank text has failed, nothing having been sent
C20_Witness ==
    /\ last.op = "send_failed"
    /\ last.error = ErrEmptyMessage
    /\ last.call.called = "ready"
    /\ ~last.call.media
    /\ sendCalls[client] = 0
    /\ tasks = EmptyBag

\* C21: with the connection ready, sendMedia whose mimeType or base64 is empty or
\* whitespace-only fails with 'Mídia inválida.' before the destination is
\* resolved: no directory lookup, no patch and no client.sendMessage() is made.
C21_InvalidMediaFailsFirst ==
    [][/\ \A dest \in Destinations, data \in MediaInputs :
             (/\ SendMedia(dest, data) /\ status = "ready"
              /\ (Trim(data.mimeType) = <<>> \/ Trim(data.base64) = <<>>))
                => /\ last'.op = "send_failed"
                   /\ last'.error = ErrInvalidMedia
                   /\ tasks' = tasks
                   /\ UNCHANGED <<stateVars, sendCalls, pagePatched, wraps>>
       /\ \A t \in BagToSet(tasks) :
             (/\ SendInitOk(t) /\ t.media /\ status = "ready"
              /\ (Trim(t.data.mimeType) = <<>> \/ Trim(t.data.base64) = <<>>))
                => /\ last'.op = "send_failed"
                   /\ last'.error = ErrInvalidMedia
                   /\ tasks' = DropTask(t)
                   /\ UNCHANGED <<stateVars, sendCalls, pagePatched, wraps>>]_vars

\* a sendMedia made at ready with unusable media has failed, nothing having been
\* looked up or sent
C21_Witness ==
    /\ last.op = "send_failed"
    /\ last.error = ErrInvalidMedia
    /\ last.call.called = "ready"
    /\ last.call.media
    /\ sendCalls[client] = 0
    /\ tasks = EmptyBag

\* the reference normalization of the resolver, stated without recursion: keep
\* the digits; drop the first two digits k times, k being the first count at
\* which what is left does not both start with 55 and have more than 13 digits;
\* prepend 55 to 10 or 11 digits that do not start with 55
KeywordInput(dest) == ToLowerCase(Trim(dest)) \in { <<"m", "e">>, <<"s", "e", "l", "f">> }
DropFirst(d, n) == SubSeq(d, n + 1, Len(d))
TooLong(d) == Len(d) > 13 /\ Len(d) >= 2 /\ SubSeq(d, 1, 2) = <<"5", "5">>
ReferenceNormalization(raw) ==
    LET d0 == SelectSeq(raw, LAMBDA ch : ch \in DigitChars)
        k == CHOOSE n \in 0..Len(d0) :
                /\ \A j \in 0..(n - 1) : TooLong(DropFirst(d0, 2 * j))
                /\ ~TooLong(DropFirst(d0, 2 * n))
        d1 == DropFirst(d0, 2 * k)
    IN IF Len(d1) \in {10, 11} /\ (Len(d1) < 2 \/ SubSeq(d1, 1, 2) # <<"5", "5">>)
       THEN <<"5", "5">> \o d1 ELSE d1

\* the calls that a step has suspended at the directory lookup
NewLookups == {u \in BagToSet(tasks') :
                  u.kind = "send" /\ u.pc = "lookup" /\ CopiesIn(u, tasks') > CopiesIn(u, tasks)}

\* from the destination dest, start() having reported ready: the digits handed to
\* getNumberId() are the reference normalization of dest
LooksUpReference(dest) ==
    (~KeywordInput(dest) /\ ~Includes(dest, "@") /\ ReferenceNormalization(dest) # <<>>)
       => /\ last'.op = "send_await"
          /\ NewLookups # {}
          /\ \A u \in NewLookups : u.chat = ReferenceNormalization(dest)

\* C22: for every destination that is not a keyword and has no '@', the digits
\* handed to the directory lookup are the reference normalization of the input
\* (non-digits removed, leading 55 dropped while more than 13 digits, 55 prepended
\* to 10 or 11 digits); 5511999998888 is unchanged, 11999998888 gets the prefix.
C22_LookupGetsNormalizedDigits ==
    [][(last'.op \in {"send_await", "send_failed", "send_message"} /\ status = "ready")
          => /\ \A dest \in ResolveInputs :
                   SendText(dest, ResolveText) => LooksUpReference(dest)
             /\ \A t \in BagToSet(tasks) :
                   SendInitOk(t) => LooksUpReference(t.dest)
             /\ \A u \in NewLookups : \E dest \in ResolveInputs :
                   /\ ~KeywordInput(dest) /\ ~Includes(dest, "@")
                   /\ u.chat = ReferenceNormalization(dest)
             /\ \A dest \in ResolveInputs, u \in NewLookups :
                   /\ (/\ SendText(dest, ResolveText)
                       /\ dest = <<"5", "5", "1", "1", "9", "9", "9", "9", "9", "8", "8", "8", "8">>)
                         => u.chat = dest
                   /\ (/\ SendText(dest, ResolveText)
                       /\ dest = <<"1", "1", "9", "9", "9", "9", "9", "8", "8", "8", "8">>)
                         => u.chat = <<"5", "5">> \o dest]_vars

\* a send is suspended at the lookup of a number whose repeated prefix was dropped
\* twice
C22_Witness ==
    /\ last.op = "send_await"
    /\ status = "ready"
    /\ \E u \in BagToSet(tasks) :
          /\ u.kind = "send" /\ u.pc = "lookup"
          /\ u.chat = <<"5", "1", "1", "9", "9", "9", "9", "9", "8", "8", "8", "8">>

\* the digits of dest start with 55 and are more than 13
LongPrefixed(dest) ==
    LET d == SelectSeq(dest, LAMBDA ch : ch \in DigitChars)
    IN Len(d) > 13 /\ SubSeq(d, 1, 2) = <<"5", "5">>

\* C23: for every destination whose digits start with 55 and are more than 13,
\* the digits handed to the directory lookup are at most 13.
C23_StrippedToValidLength ==
    [][(last'.op = "send_await" /\ status = "ready")
          => \A dest \in ResolveInputs, u \in NewLookups :
                (SendText(dest, ResolveText) /\ LongPrefixed(dest)) => Len(u.chat) <= 13]_vars

\* the calls a step has suspended, at an await after the destination was resolved
NewCalls == {u \in BagToSet(tasks') :
                u.kind = "send" /\ u.pc # "start" /\ CopiesIn(u, tasks') > CopiesIn(u, tasks)}
HasDigit(dest) == \E i \in 1..Len(dest) : dest[i] \in DigitChars

\* what the claim requires of the resolver for dest, once start() has reported
\* ready; keywordsToo tells whether the keywords count among the inputs with
\* neither '@' nor a digit
ResolvesAsClaimed(dest, keywordsToo) ==
    /\ (\/ Trim(dest) = <<>>
        \/ (~Includes(dest, "@") /\ ~HasDigit(dest) /\ (keywordsToo \/ ~KeywordInput(dest))))
          => /\ last'.op = "send_failed"
             /\ last'.error = ErrInvalidNumber
             /\ NewCalls = {}
    /\ Includes(dest, "@")
          => /\ last'.op \in {"send_await", "send_message"}
             /\ NewCalls # {}
             /\ \A u \in NewCalls : u.pc \in {"patch", "deliver"} /\ u.chat = Trim(dest)

\* C26 (as stated): the resolver fails with 'Número inválido.' for every input
\* that is empty after trimming or has neither '@' nor a digit, and returns every
\* other input with '@' as it is, without a directory lookup.
C26_InvalidOrChatId ==
    [][(last'.op \in {"send_await", "send_failed", "send_message"} /\ status = "ready")
          => /\ \A dest \in ResolveInputs :
                   SendText(dest, ResolveText) => ResolvesAsClaimed(dest, TRUE)
             /\ \A t \in BagToSet(tasks) :
                   SendInitOk(t) => ResolvesAsClaimed(t.dest, TRUE)]_vars

\* C26 (amended): the resolver fails with 'Número inválido.' for every input
\* that is empty after trimming, or that is not the keyword me/self and has
\* neither '@' nor a digit; it returns every input with '@', trimmed, without a
\* directory lookup.
C26_InvalidOrChatIdButKeywords ==
    [][(last'.op \in {"send_await", "send_failed", "send_message"} /\ status = "ready")
          => /\ \A dest \in ResolveInputs :
                   SendText(dest, ResolveText) => ResolvesAsClaimed(dest, FALSE)
             /\ \A t \in BagToSet(tasks) :
                   SendInitOk(t) => ResolvesAsClaimed(t.dest, FALSE)]_vars

\* a send to a chat id given with surrounding blanks has reached
\* client.sendMessage() with the trimmed id, no lookup having been made
C26_Witness ==
    /\ last.op = "send_message"
    /\ last.call.reported = "ready"
    /\ \E u \in BagToSet(tasks) :
          u.kind = "send" /\ u.pc = "deliver" /\ u.chat = <<"1", "@", "c">>

\* C25: when getNumberId() returns no id or throws, sendText and sendMedia fail
\* with 'Este número não está no WhatsApp.', client.sendMessage() is not called,
\* and the error of the lookup is not what the caller gets.
C25_LookupFailureIsNotOnNetwork ==
    [][last'.op = "send_failed"
          => \A t \in BagToSet(tasks), r \in {"none", "throws"} :
                LookupDone(t, r)
                   => /\ last'.error = ErrNotOnWhatsApp
                      /\ last'.error # LookupError
                      /\ last'.call.media = t.media
                      /\ sendCalls' = sendCalls
                      /\ tasks' = DropTask(t)
                      /\ UNCHANGED <<stateVars, pagePatched, wraps>>]_vars

\* a sendMedia to a number has failed as not on the network straight from the
\* lookup: client.sendMessage() was never called and rejected nothing
C25_Witness ==
    /\ last.op = "send_failed"
    /\ last.error = ErrNotOnWhatsApp
    /\ "thrown" \notin DOMAIN last
    /\ last.call.media
    /\ last.call.reported = "ready"
    /\ sendCalls[last.call.client] = 0

\* what the claim requires of a call to a keyword made on client c, once start()
\* has reported ready: the own id of c if c has one (it has once it is ready, it
\* has none before), else the failure; no lookup and no other failure
ResolvesSelf(c) ==
    /\ \/ /\ last'.op = "send_failed"
          /\ last'.error = ErrNoSelf
          /\ NewCalls = {}
          /\ phase[c] # "ready"
       \/ /\ last'.op \in {"send_await", "send_message"}
          /\ NewCalls # {}
          /\ \A u \in NewCalls : u.pc \in {"patch", "deliver"} /\ u.chat = SelfWid
          /\ phase[c] \notin {"new", "starting", "pairing"}
    /\ \A u \in BagToSet(tasks') : (u.kind = "send" /\ u.pc = "lookup") => u \in BagToSet(tasks)

PatchesInFlight(c) ==
    BagCardinality([t \in {u \in BagToSet(tasks) :
                             \/ u.kind = "patch" /\ u.client = c
                             \/ u.kind = "send" /\ u.pc = "patch" /\ u.page = c}
                      |-> CopiesIn(t, tasks)])

\* C27: on each client instance WWebJS.processMediaData is wrapped at most once,
\* also when the ready handler and concurrent sends have all passed the
\* injectedPatched guard before any of them has set it.
C27_WrappedAtMostOnce ==
    \A c \in ClientIds : /\ wraps[c] <= 1
                         /\ wraps[c] = 1 <=> pagePatched[c]

\* the ready handler and a send had both passed the guard; one evaluation has
\* wrapped the function and set the guard, the other is still to run in the page
C27_Witness ==
    /\ injectedPatched
    /\ wraps[client] = 1
    /\ PatchesInFlight(client) >= 1
    /\ status = "ready"

\* the current client has a page for the patch to evaluate on
PageKnown == HasPageChoices(client, phase) = {TRUE}
NoPage == HasPageChoices(client, phase) = {FALSE}

\* C28: when page.evaluate() of the patch throws, or the client has no page, the
\* send goes on to client.sendMessage() and the injectedPatched guard stays
\* false, so that the next call that finds a page evaluates the patch again.
C28_PatchFailureIsSwallowed ==
    [][/\ (last'.op = "send_message" /\ ~injectedPatched)
             => /\ \A t \in BagToSet(tasks), b \in BOOLEAN :
                      (t.kind = "send" /\ t.pc = "patch" /\ SendPatchDone(t, TRUE, b))
                         => /\ ~injectedPatched'
                            /\ sendCalls'[t.client] = sendCalls[t.client] + 1
                            /\ \A u \in NewCalls : u.pc = "deliver" /\ u.chat = t.chat
                /\ \A t \in BagToSet(tasks) :
                      (t.kind = "send" /\ t.pc = "lookup" /\ NoPage /\ LookupDone(t, "found"))
                         => /\ ~injectedPatched'
                            /\ sendCalls'[t.client] = sendCalls[t.client] + 1
                            /\ \A u \in NewCalls : u.pc = "deliver"
       /\ (/\ last'.op \in {"send_await", "send_message"}
           /\ ~injectedPatched /\ PageKnown
           /\ \A t \in BagToSet(tasks) : ~(t.kind = "send" /\ t.pc = "patch"))
             => \A u \in NewCalls : u.pc \in {"lookup", "patch"}]_vars

\* page.evaluate() has thrown under a send: client.sendMessage() has been called
\* all the same and the guard is still false
C28_Witness ==
    /\ last.op = "send_message"
    /\ ~injectedPatched
    /\ phase[client] = "ready"
    /\ sendCalls[last.call.client] = 1
    /\ \E u \in BagToSet(tasks) : u.kind = "send" /\ u.pc = "deliver"

\* a send has reached client.sendMessage() past a client that has no page yet
C28_WitnessNoPage ==
    /\ last.op = "send_message"
    /\ ~injectedPatched
    /\ phase[client] = "new"

\* C29: getStatus() returns the current {status, qr, lastError} and changes
\* nothing: not the state, the guards, the client or the listener list; it makes
\* no client.on() call, suspends nothing and emits no event.
C29_GetStatusIsPureRead ==
    [][last'.op = "getStatus"
          => /\ last'.ret = Snapshot
             /\ UNCHANGED ProgramVars
             /\ events' = <<>>
             /\ \A l \in ListenerIds : delivered'[l] = <<>>
             /\ lastState' = lastState]_vars

\* getStatus() has returned the pairing token while an initialization is pending
\* and a subscriber is registered
C29_Witness ==
    /\ last.op = "getStatus"
    /\ last.ret = [status |-> "qr", qr |-> "qrB", lastError |-> Null]
    /\ status = "qr"
    /\ tasks # EmptyBag
    /\ onCalls[client]["qr"] = 1
    /\ listeners # <<>>

\* C30: a forced start first resets and then starts: the client it replaces has
\* been destroyed, initialize() is called exactly once on the client its reset
\* has constructed, and not on the client it found.
C30_ForceRestartsOnNewClient ==
    [][("force" \in DOMAIN last')
          => /\ last'.op = "reset"
                   => /\ destroyCalls[last'.force.old] >= 1
                      /\ destroyCalls[last'.force.replaced] >= 1
                      /\ client' = last'.force.new
                      /\ UNCHANGED initCalls
             /\ last'.op \in {"start", "start_noop", "start_await"}
                   => /\ initCalls[last'.force.new] = 0
                      /\ initCalls'[last'.force.new] = 1
                      /\ \A c \in ClientIds \ {last'.force.new} : initCalls'[c] = initCalls[c]]_vars

\* the same for the second half alone: the start() of a forced start calls
\* initialize() once, on the client that request's reset has constructed
C30_StartInitializesOwnClient ==
    [][("force" \in DOMAIN last' /\ last'.op \in {"start", "start_noop", "start_await"})
          => /\ initCalls[last'.force.new] = 0
             /\ initCalls'[last'.force.new] = 1]_vars

\* C31: the connection is torn down by reset() alone: a step that takes status
\* to idle from another status is the completion of a reset, and a step in which
\* destroy() is called on a client is the beginning of one; no start(),
\* getStatus() or client event does either.
C31_OnlyResetTearsDown ==
    [][/\ (status' = "idle" /\ status # "idle") => last'.op = "reset"
       /\ (destroyCalls' # destroyCalls) => last'.op = "reset_await"
       /\ last'.op \notin {"reset", "reset_await"}
             => /\ client' = client
                /\ \A c \in ClientIds : destroyCalls'[c] = destroyCalls[c]
                /\ status' = "idle" => status = "idle"]_vars

\* a reset has taken a connection that was ready back to idle, destroy() having
\* been called once on the client it replaced
C31_Witness ==
    /\ last.op = "reset"
    /\ status = "idle"
    /\ client = 2
    /\ destroyCalls[1] = 1
    /\ initCalls[1] = 1
    /\ lastState = IdleSnapshot
    /\ phase[1] = "closed"

\* C32: a send calls client.sendMessage() only on the client instance that is
\* current at that moment and only while status is ready.
C32_SendsOnCurrentReadyClient ==
    [][sendCalls' # sendCalls
         => /\ status' = "ready"
            /\ last'.call.client = client'
            /\ phase'[last'.call.client] = "ready"]_vars

\* C33: when a client.initialize() begun before a reset rejects after the reset has
\* replaced the client, status, lastError and the initialized guard keep their
\* values and no event is broadcast.
C33_StaleInitFailureChangesNothing ==
    [][\A t \in BagToSet(tasks), e \in Thrown :
          (t.kind = "start" /\ t.client # client /\ InitFail(t, e))
             => /\ status' = status
                /\ lastError' = lastError
                /\ initialized' = initialized
                /\ events' = <<>>]_vars

\* the calls of client.initialize() on client c that have not settled
InitializesPending(c) ==
    BagCardinality([t \in {u \in BagToSet(tasks) :
                             /\ \/ u.kind = "start"
                                \/ u.kind = "send" /\ u.pc = "start"
                             /\ u.client = c}
                      |-> CopiesIn(t, tasks)])

\* C34: on no client instance are two calls of initialize() in flight at once,
\* whatever the order of start(), reset(), client events and initialize failures.
C34_OneInitializeInFlight ==
    \A c \in ClientIds : InitializesPending(c) <= 1

\* C35: the injectedPatched guard becomes true only through a patch evaluated in
\* the page of the current client: a patch application begun before a reset and
\* settling after it leaves the guard of the new client as it is.
C35_StalePatchLeavesGuard ==
    [][\A t \in BagToSet(tasks), throws, hasWWebJS \in BOOLEAN :
          (t.kind = "patch" /\ t.client # client /\ PatchFinish(t, throws, hasWWebJS))
             => injectedPatched' = injectedPatched]_vars

\* C36 (as stated): a sendText or sendMedia call that fails with NotConnected has
\* left the connection as it was: it was made at a status at which start() writes
\* nothing, and the step in which it fails changes no state field or guard,
\* broadcasts nothing and calls no initialize().
C36_NotConnectedChangesNothing ==
    [][(last'.op = "send_failed" /\ last'.error = ErrNotConnected)
          => /\ last'.call.called \in BusyStatuses
             /\ UNCHANGED stateVars
             /\ events' = <<>>
             /\ initCalls' = initCalls]_vars

\* C36 (amended): a sendText or sendMedia call made while status is initializing
\* or qr fails with NotConnected in the turn it is made and leaves the connection
\* unchanged: no state field or guard is written, nothing is broadcast, no
\* initialize() or sendMessage() is called and nothing is left suspended.
C36_BusyNotConnectedChangesNothing ==
    [][(last'.op \in SendOps /\ last'.call.called \in {"initializing", "qr"})
          => /\ last'.op = "send_failed"
             /\ last'.error = ErrNotConnected
             /\ status \in {"initializing", "qr"}
             /\ UNCHANGED stateVars
             /\ events' = <<>>
             /\ initCalls' = initCalls
             /\ sendCalls' = sendCalls
             /\ tasks' = tasks
             /\ UNCHANGED <<client, listeners, phase, handlers>>]_vars

\* a sendMedia made while the client is initializing has failed with
\* NotConnected, initialize() having been called once, by the earlier start()
C36_Witness ==
    /\ last.op = "send_failed"
    /\ last.error = ErrNotConnected
    /\ last.call.media
    /\ last.call.called = "initializing"
    /\ status = "initializing"
    /\ initCalls[client] = 1
    /\ events = <<>>
    /\ TaskCount = 1

\* dest is a number of exactly 10 or 11 digits and nothing else
NationalNumber(dest) ==
    /\ Len(dest) \in {10, 11}
    /\ \A i \in 1..Len(dest) : dest[i] \in DigitChars

\* C37: every destination given as a national number of exactly 10 or 11 digits,
\* whatever its area code, is handed to the directory lookup with 55 prepended
\* (12 or 13 digits).
C37_NationalNumberGetsPrefix ==
    [][(last'.op = "send_await" /\ status = "ready")
          => \A dest \in ResolveInputs :
                (NationalNumber(dest) /\ SendText(dest, ResolveText))
                   => /\ NewLookups # {}
                      /\ \A u \in NewLookups :
                            /\ u.chat = <<"5", "5">> \o dest
                            /\ Len(u.chat) \in {12, 13}]_vars

\* C38: an inbound message of the underlying client broadcasts exactly one event,
\* a message event carrying from, body and id of the message, which every
\* registered listener gets once per registration; status, qr, lastError and the
\* guards are unchanged, no state event is emitted and nothing else is touched.
C38_MessageIsBroadcastAlone ==
    [][last'.op = "message"
         => /\ Len(events') = 1
            /\ events'[1].type = "message"
            /\ DOMAIN events'[1].data = {"from", "body", "id"}
            /\ events'[1].data \in Inbound
            /\ \A i \in 1..Len(events') : events'[i].type # "state"
            /\ \A l \in ListenerIds :
                  delivered'[l] = Repeat(events'[1], Occurrences(listeners, l))
            /\ lastState' = lastState
            /\ UNCHANGED stateVars
            /\ UNCHANGED <<client, created, listeners, unsubs, tasks, clientVars>>]_vars

\* a message has come in on a ready connection with two listeners registered;
\* each got the one message event
C38_Witness ==
    /\ last.op = "message"
    /\ status = "ready"
    /\ Len(listeners) = 2
    /\ listeners[1] # listeners[2]
    /\ events = << [type |-> "message",
                    data |-> [from |-> "5511@c.us", body |-> "oi", id |-> "m1"]] >>
    /\ \A l \in ListenerIds : delivered[l] = events
    /\ lastState.status = "ready"

\* the frames of the events evs, one each, in their order
FramesOf(evs) == [i \in 1..Len(evs) |-> [event |-> evs[i].type, data |-> evs[i].data]]

\* the streams that are open after the step and were connected before it
StreamsAlreadyOpen ==
    {h \in DOMAIN unsubs' :
        /\ unsubs'[h].calls = 0
        /\ ~(last'.op = "stream_open" /\ last'.handle = h)}

\* a connecting stream writes the state of that moment and is subscribed when the
\* turn ends, no state having changed in between
C39_ConnectWritesCurrentState ==
    [][last'.op = "stream_open"
         => /\ last'.frames = << [event |-> "state", data |-> Snapshot'] >>
            /\ Snapshot' = Snapshot
            /\ last'.handle \in DOMAIN unsubs'
            /\ Occurrences(listeners', unsubs'[last'.handle].listener) = 1
            /\ events' = <<>>]_vars
\* from then on every step's events are written to it, each once, as emitted and
\* in emission order, and when the state has changed in the step the last state
\* frame written carries the new state
C39_OpenStreamGetsEveryEvent ==
    [][\A h \in StreamsAlreadyOpen :
          LET l == unsubs'[h].listener
          IN /\ FramesWritten(delivered'[l]) = FramesOf(events')
             /\ LastStateOf(delivered'[l], Snapshot) = Snapshot'
             /\ \A i \in 1..Len(delivered'[l]) :
                   delivered'[l][i].type = "state" /\ i = Len(delivered'[l])
                      => delivered'[l][i].data = Snapshot']_vars
\* C39: each connection to the events stream first gets the state current when it
\* connects and then every event broadcast afterwards, verbatim and in emission
\* order; none is broadcast between the snapshot and the subscription, so the
\* last state written to an open stream is the current state.
C39_StreamSeesSnapshotThenEveryEvent ==
    C39_ConnectWritesCurrentState /\ C39_OpenStreamGetsEveryEvent

\* a stream that connected earlier has been written the ready event and the
\* state event of a client that became ready
C39_Witness ==
    /\ last.op = "ready"
    /\ 1 \in OpenStreams
    /\ unsubs[1].timer
    /\ StreamWrites(unsubs[1].listener) =
          << [event |-> "ready", data |-> events[1].data],
             [event |-> "state", data |-> [status |-> "ready", qr |-> Null, lastError |-> Null]] >>
    /\ Snapshot = [status |-> "ready", qr |-> Null, lastError |-> Null]

\* C40: connections to the events stream leak no listener: a cancelled stream has
\* no listener on the broadcaster and no interval set, it is written neither
\* events nor pings, every open stream has exactly one listener and its interval,
\* and the number of listeners is the number of open streams.
C40_NoListenerLeak ==
    /\ Len(listeners) = Cardinality(OpenStreams)
    /\ \A h \in DOMAIN unsubs :
          IF h \in OpenStreams
          THEN /\ Occurrences(listeners, unsubs[h].listener) = 1
               /\ unsubs[h].timer
               /\ delivered[unsubs[h].listener] = events
          ELSE /\ Occurrences(listeners, unsubs[h].listener) = 0
               /\ ~unsubs[h].timer
               /\ unsubs[h].calls = 1
               /\ delivered[unsubs[h].listener] = <<>>
               /\ ~(last.op = "ping" /\ last.handle = h)

\* of two streams the first was cancelled; an inbound message is then written to
\* the second alone
C40_Witness ==
    /\ Len(unsubs) = 2
    /\ unsubs[1].calls = 1
    /\ 2 \in OpenStreams
    /\ listeners = << unsubs[2].listener >>
    /\ last.op = "message"
    /\ Len(events) = 1
    /\ delivered[unsubs[2].listener] = events
    /\ delivered[unsubs[1].listener] = <<>>

====
